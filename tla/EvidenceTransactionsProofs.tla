---------------------- MODULE EvidenceTransactionsProofs ----------------------
(***************************************************************************)
(* Proofs about EvidenceTransactions: the transactions, interleaved in any *)
(* way, publish what EvidenceCase does in one step, and wait for one       *)
(* another in a cycle in one way only.                                     *)
(***************************************************************************)
EXTENDS EvidenceTransactions, FiniteSetTheorems, SequenceTheorems, WellFoundedInduction, TLAPS

-----------------------------------------------------------------------------
(***************************************************************************)
(* A request, the locks it holds and the committed rows, as values: what   *)
(* is said of them below is said of any request x that holds locks H over  *)
(* any matter M, so that it carries over from one state to the next when   *)
(* these do not change.                                                    *)
(***************************************************************************)

Rows == [sources |-> sources, claim |-> claim, conflict |-> conflict, section |-> section,
         packets |-> packets, events |-> Len(log), decided |-> Len(decisions)]

\* Past the write of a request's own rows, past the withdrawal of the approvals.
Written == {"audit", "reset", "append", "commit"}
Late    == {"append", "commit"}

\* n events appended to a chain of length m.
Events(m, n) == [i \in 1 .. n |-> [prev |-> m + i - 1]]

VisibleIn(M, role, S) ==
  S \subseteq DOMAIN M.claim /\ \A c \in S : VisibleTo(role, M.claim[c].privilege)

ClaimLocks(S) == {ClaimLock(c) : c \in S}

\* The approvals are withdrawn under the lock of every section, and the events are
\* appended last.
Audited(x, H, M, n) ==
  /\ x.at \in {"audit", "reset"} => x.tx.section = NoRows
  /\ x.at \in Late =>
       /\ x.tx.section = ResetApprovals(M.section, DOMAIN M.section)
       /\ \A s \in DOMAIN M.section : SectionLock(s) \in H
  /\ x.tx.log = IF x.at = "commit" THEN Events(M.events, n) ELSE <<>>
  /\ x.tx.revision = {} /\ x.tx.packet = <<>>

\* What is true of request x between its arrival and its end, operation by operation:
\* where it can stand, what it saw, which locks protect it, and what it wrote.
Uploading(x, H, M) ==
  /\ x.at \in Written \cup {"write"}
  /\ VisibleTo(Role[x.call.by], Privilege[x.call.source])
  /\ x.at \in Written =>
       /\ x.tx.sources = {x.call.source}
       /\ x.tx.claim = NoRows /\ x.tx.conflict = NoRows /\ x.tx.decision = <<>>
       /\ Audited(x, H, M, 1)

Creating(x, H, M) ==
  /\ x.at \in Written \cup {"write"}
  /\ x.call.source \in M.sources
  /\ VisibleTo(Role[x.call.by], Privilege[x.call.source])
  /\ x.at \in Written =>
       /\ \E c \in Claims :
            /\ c \notin DOMAIN M.claim
            /\ x.tx.claim = Only(c, ExtractedClaim(x.call.by, Privilege[x.call.source], x.call.quote))
       /\ x.tx.sources = {} /\ x.tx.conflict = NoRows /\ x.tx.decision = <<>>
       /\ Audited(x, H, M, 1)

Verifying(x, H, M) ==
  LET c   == x.call.claim
      row == M.claim[c]
  IN  /\ x.at \in Written \cup {"claims", "write"}
      /\ HasPrivilegeClearance(Role[x.call.by])
      /\ c \in DOMAIN M.claim
      /\ x.at # "claims" => ClaimLock(c) \in H
      /\ x.at \in Written =>
           /\ row.quoteVerification = "manual_verification_required"
           /\ row.author # x.call.by
           /\ x.tx.claim = Only(c, Attested(row, x.call.by, M.conflict, c))
           /\ x.tx.sources = {} /\ x.tx.conflict = NoRows /\ x.tx.decision = <<>>
           /\ Audited(x, H, M, 1)

\* The claims of pair S as they are with conflict k flagged besides those of M.
FlaggedClaims(M, k, new, S) ==
  [c \in S |-> Recompute(M.claim[c], Put(M.conflict, k, new), c)]

Flagging(x, H, M) ==
  LET a   == x.call.a
      b   == x.call.b
      new == FlaggedConflict(a, b, x.call.severity)
  IN  /\ x.at \in Written \cup {"claims", "write"}
      /\ a # b
      /\ VisibleIn(M, Role[x.call.by], {a, b})
      /\ x.at # "claims" => ClaimLocks({a, b}) \subseteq H
      /\ x.at \in Written =>
           /\ \E k \in Conflicts :
                /\ k \notin DOMAIN M.conflict
                /\ ~OtherOpenConflict(M.conflict, a, b, k)
                /\ x.tx.conflict = Only(k, new)
                /\ x.tx.claim = FlaggedClaims(M, k, new, IF x.at = "commit" THEN {a, b} ELSE {a})
           /\ x.tx.sources = {} /\ x.tx.decision = <<>>
           /\ Audited(x, H, M, 3)

\* Conflict k as the decision leaves it, the claims then, and how many stand anew.
Verdict(x, M)       == Decided(M.conflict[x.call.conflict], x.call.decision, x.call.selected)
VerdictClaims(x, M) == DecidedClaims(M.claim, Put(M.conflict, x.call.conflict, Verdict(x, M)), x.call.conflict)
ChangedClaims(x, M) ==
  {c \in ClaimsOf(Verdict(x, M)) : StandingChanged(M.claim[c], VerdictClaims(x, M)[c])}

Deciding(x, H, M) ==
  LET k   == x.call.conflict
      row == M.conflict[k]
  IN  /\ x.at \in Written \cup {"conflict", "claims"}
      /\ k \in DOMAIN M.conflict
      /\ x.at # "conflict" =>
           /\ ConflictLock(k) \in H
           /\ x.expected = row.version
           /\ DecisionPermitted(x.call.decision, Role[x.call.by], row.severity)
           /\ VisibleIn(M, Role[x.call.by], ClaimsOf(row))
      /\ x.at \in Written =>
           /\ ClaimLocks(ClaimsOf(row)) \subseteq H
           /\ IF x.at = "commit"
              THEN /\ x.tx.conflict = Only(k, Verdict(x, M))
                   /\ x.tx.claim = [c \in ClaimsOf(Verdict(x, M)) |-> VerdictClaims(x, M)[c]]
                   /\ x.tx.decision = <<[conflict |-> k, saw |-> row.version, prev |-> M.decided]>>
              ELSE x.tx.conflict = NoRows /\ x.tx.claim = NoRows /\ x.tx.decision = <<>>
           /\ x.tx.sources = {}
           /\ Audited(x, H, M, 1 + Cardinality(ChangedClaims(x, M)))

\* What a request about sections leaves alone.
EvidenceUntouched(x) ==
  /\ x.tx.sources = {} /\ x.tx.claim = NoRows /\ x.tx.conflict = NoRows
  /\ x.tx.decision = <<>>

\* It appends one event, last.
OneEvent(x, M) == x.tx.log = IF x.at = "commit" THEN Events(M.events, 1) ELSE <<>>

Drafting(x, H, M) ==
  /\ x.at \in {"catalog", "write", "audit", "append", "commit"}
  /\ x.at # "catalog" => CatalogLock \in H
  /\ x.at \in Written =>
       /\ \E s \in Sections :
            /\ s \notin DOMAIN M.section
            /\ ParagraphRefFree(M.section, x.call.ref, s)
            /\ x.tx.section = Only(s, DraftedSection(x.call.ref, NextPosition(M.section), x.call.cited))
            /\ x.tx.revision = {[section |-> s, number |-> 1, parent |-> 0, saw |-> 0]}
       /\ VisibleIn(M, Role[x.call.by], x.call.cited)
       /\ EvidenceUntouched(x) /\ x.tx.packet = <<>> /\ OneEvent(x, M)

\* The revision after the present one of section s.
RevisionAfter(M, s) ==
  [section |-> s, number |-> M.section[s].version + 1, parent |-> M.section[s].version,
   saw |-> M.section[s].version]

\* Section s is locked, and it has the version the reviewer saw.
HoldsSection(x, H, M) ==
  /\ SectionLock(x.call.section) \in H
  /\ x.expected = M.section[x.call.section].version

Revising(x, H, M) ==
  LET s == x.call.section
  IN  /\ x.at \in {"section", "catalog", "write", "audit", "append", "commit"}
      /\ s \in DOMAIN M.section
      /\ x.at # "section" => HoldsSection(x, H, M)
      /\ x.at \in Written \cup {"write"} => CatalogLock \in H
      /\ x.at \in Written =>
           /\ ParagraphRefFree(M.section, x.call.ref, s)
           /\ VisibleIn(M, Role[x.call.by], x.call.cited)
           /\ x.tx.section = Only(s, Revised(M.section[s], x.call.ref, x.call.cited))
           /\ x.tx.revision = {RevisionAfter(M, s)}
           /\ EvidenceUntouched(x) /\ x.tx.packet = <<>> /\ OneEvent(x, M)

Approving(x, H, M) ==
  LET s == x.call.section
  IN  /\ x.at \in {"section", "audit", "append", "commit"}
      /\ s \in DOMAIN M.section
      /\ x.at # "section" => HoldsSection(x, H, M) /\ PacketPermitted(Role[x.call.by])
      /\ x.at \in {"audit", "append"} => x.tx = NoChanges
      /\ x.at = "commit" =>
           /\ ImpactOf(M.claim, M.conflict, M.section[s].claimIds) \in UsableSectionStatuses
           /\ x.tx.section = Only(s, ApprovedSection(M.claim, M.conflict, M.section[s]))
           /\ x.tx.revision = {RevisionAfter(M, s)}
           /\ EvidenceUntouched(x) /\ x.tx.packet = <<>> /\ OneEvent(x, M)

\* A rendered packet is the one the matter calls for as long as no event was appended
\* since it was begun.
Rendered(x, M) ==
  \E entries :
    /\ x.tx.packet = <<[type |-> x.call.type, key |-> x.call.key, root |-> x.tx.root,
                        entries |-> entries]>>
    /\ x.tx.root = M.events =>
         entries = BuildPacket(M.claim, M.conflict, M.section, x.call.type)

Packing(x, H, M) ==
  /\ x.at \in {"replay", "share", "root", "build", "release", "audit", "append", "commit"}
  /\ PacketPermitted(Role[x.call.by])
  /\ x.at \in {"build", "release", "audit", "append", "commit"} =>
       /\ EvidenceUntouched(x) /\ x.tx.section = NoRows /\ x.tx.revision = {}
       /\ x.tx.root \in 0 .. M.events
       /\ OneEvent(x, M)
  /\ x.at \in {"release", "audit", "append", "commit"} => Rendered(x, M)
  /\ x.at = "commit" => x.tx.root = M.events /\ x.call.key \notin UsedKeys(M.packets, NoKey)

\* The labels before a request writes anything.
Unwritten == {"idle", "conflict", "claims", "section", "catalog", "write", "replay", "share",
              "root", "done"}

Local(x, H, M) ==
  /\ x.at \in Unwritten => x.tx = NoChanges
  /\ x.at \in {"reset", "append", "commit"} => AuditLock \in H
  /\ x.at \in {"idle", "done"} => H = {}
  /\ x.at \notin {"idle", "done"} =>
       /\ x.call \in CallRecords
       /\ x.call.op = "upload"  => Uploading(x, H, M)
       /\ x.call.op = "create"  => Creating(x, H, M)
       /\ x.call.op = "verify"  => Verifying(x, H, M)
       /\ x.call.op = "flag"    => Flagging(x, H, M)
       /\ x.call.op = "decide"  => Deciding(x, H, M)
       /\ x.call.op = "draft"   => Drafting(x, H, M)
       /\ x.call.op = "revise"  => Revising(x, H, M)
       /\ x.call.op = "approve" => Approving(x, H, M)
       /\ x.call.op = "packet"  => Packing(x, H, M)

-----------------------------------------------------------------------------
(***************************************************************************)
(* The invariant.                                                          *)
(***************************************************************************)

\* Every request is what its operation makes of it.
Orderly == \A r \in Requests : Local(req[r], held[r], Rows)

\* A record is a function on its fields.
HasFields(x, names) == DOMAIN x = names /\ x = [f \in names |-> x[f]]

IsChanges(t) ==
  HasFields(t, {"sources", "claim", "conflict", "section", "packet", "log", "decision",
                "revision", "root"})

IsRequest(x) ==
  HasFields(x, {"at", "call", "expected", "tx", "reply"}) /\ IsChanges(x.tx)

Shaped ==
  /\ req = [r \in Requests |-> req[r]]
  /\ held = [r \in Requests |-> held[r]]
  /\ \A r \in Requests : IsRequest(req[r]) /\ (req[r].at = "idle" => req[r] = Idle)

\* A table is a function on the identifiers of its rows.
IsTable(f) == f = [id \in DOMAIN f |-> f[id]]

Tables == IsTable(claim) /\ IsTable(conflict) /\ IsTable(section)

\* No lock is held twice.
LocksExclusive == \A q, r \in Requests : q # r => held[q] \cap held[r] = {}

\* The rows of a table that request r is about to add to those of `table'.
NewIds(table, changes) == DOMAIN changes \ DOMAIN table

\* No two requests are about to add a row under one identifier.
NewIdsApart ==
  \A q, r \in Requests : q # r =>
    /\ NewIds(claim, Tx(q).claim) \cap NewIds(claim, Tx(r).claim) = {}
    /\ NewIds(conflict, Tx(q).conflict) \cap NewIds(conflict, Tx(r).conflict) = {}
    /\ NewIds(section, Tx(q).section) \cap NewIds(section, Tx(r).section) = {}

\* A source under upload is not there yet, and nobody else uploads it.
UploadsApart ==
  /\ \A r \in Requests :
       Call(r).op = "upload" /\ ~At(r, "done") => Call(r).source \notin sources
  /\ \A q, r \in Requests :
       Call(q).op = "upload" /\ Call(r).op = "upload" /\ Call(q).source = Call(r).source => q = r

\* The audit chain and the decisions are chained to their predecessors, and what was
\* decided is an earlier version than the present one.
Chained ==
  /\ log \in Seq([prev : Nat])
  /\ \A i \in 1 .. Len(log) : log[i].prev = i - 1
  /\ decisions \in Seq([conflict : Conflicts, saw : Nat, prev : Nat])
  /\ \A i \in 1 .. Len(decisions) :
       /\ decisions[i].prev = i - 1
       /\ decisions[i].conflict \in DOMAIN conflict
       /\ decisions[i].saw < conflict[decisions[i].conflict].version
  /\ \A i, j \in 1 .. Len(decisions) :
       decisions[i].conflict = decisions[j].conflict /\ decisions[i].saw = decisions[j].saw => i = j

\* Every revision is the child of an earlier version of its section, the one its
\* author saw, and the only child.
Descended ==
  /\ \A x \in revisions :
       /\ x.section \in DOMAIN section
       /\ x.parent \in Nat /\ x.parent < section[x.section].version
       /\ x.saw = x.parent
  /\ \A x, y \in revisions : x.section = y.section /\ x.parent = y.parent => x = y

Ended == {r \in Requests : At(r, "done")}

\* No request appended more than three events and one packet.
Counted ==
  /\ Len(log) \in 0 .. 3 * Cardinality(Ended)
  /\ Len(packets) \in 0 .. Cardinality(Ended)

Ordered ==
  /\ Shaped
  /\ Tables
  /\ Orderly
  /\ LocksExclusive
  /\ NewIdsApart
  /\ UploadsApart
  /\ Chained
  /\ Descended
  /\ Counted

-----------------------------------------------------------------------------
(***************************************************************************)
(* Tables.                                                                 *)
(***************************************************************************)

LEMMA OnlyIs ==
  ASSUME NEW k, NEW v
  PROVE  DOMAIN Only(k, v) = {k} /\ Only(k, v)[k] = v
BY DEF Only

LEMMA OverlayOnly ==
  ASSUME NEW f, NEW k, NEW v
  PROVE  Overlay(f, Only(k, v)) = Put(f, k, v)
BY DEF Overlay, Only, Put

LEMMA OverlayNothing ==
  ASSUME NEW f, f = [x \in DOMAIN f |-> f[x]]
  PROVE  Overlay(f, NoRows) = f
BY DEF Overlay, NoRows

LEMMA PutOther ==
  ASSUME NEW f, NEW k, NEW v, NEW j \in DOMAIN f, j # k
  PROVE  Put(f, k, v)[j] = f[j]
BY DEF Put

LEMMA NewIdIn ==
  ASSUME NEW Ids, Ids # {}
  PROVE  NewId(Ids) \in Ids
BY DEF NewId

\* What a claim's conflicts make of it is the same as long as these are the same.
SameConflicts(cf, cf2, c) ==
  /\ RelatedConflicts(cf2, c) = RelatedConflicts(cf, c)
  /\ \A k \in RelatedConflicts(cf, c) : cf2[k] = cf[k]

LEMMA SameEligibility ==
  ASSUME NEW cf, NEW cf2, NEW c, SameConflicts(cf, cf2, c), NEW row
  PROVE  EligibilityOf(row, cf2, c) = EligibilityOf(row, cf, c)
<1>1. {cf2[k].status : k \in RelatedConflicts(cf2, c)} = {cf[k].status : k \in RelatedConflicts(cf, c)}
  BY DEF SameConflicts
<1> QED
  BY <1>1 DEF EligibilityOf

LEMMA SameRecompute ==
  ASSUME NEW cf, NEW cf2, NEW c, SameConflicts(cf, cf2, c), NEW row
  PROVE  Recompute(row, cf2, c) = Recompute(row, cf, c)
<1> DEFINE standings(f) == {Disposition(f[k], c) : k \in RelatedConflicts(f, c)}
<1>1. standings(cf2) = standings(cf)
  <2>1. \A k \in RelatedConflicts(cf, c) : Disposition(cf2[k], c) = Disposition(cf[k], c)
    BY DEF SameConflicts
  <2>2. RelatedConflicts(cf2, c) = RelatedConflicts(cf, c)
    BY DEF SameConflicts
  <2> QED
    BY <2>1, <2>2, Zenon
<1> DEFINE judged(f) == [row EXCEPT !.status = AggregateStatus(standings(f))]
<1>2. ASSUME NEW f
      PROVE  Recompute(row, f, c)
               = [row EXCEPT !.status = AggregateStatus(standings(f)),
                             !.reportEligibility = EligibilityOf(judged(f), f, c)]
  BY DEF Recompute
<1>3. judged(cf2) = judged(cf)
  BY <1>1
<1> HIDE DEF judged, standings
<1>4. EligibilityOf(judged(cf2), cf2, c) = EligibilityOf(judged(cf), cf, c)
  BY <1>3, SameEligibility
<1> QED
  BY <1>1, <1>2, <1>4

LEMMA SameAttested ==
  ASSUME NEW cf, NEW cf2, NEW c, SameConflicts(cf, cf2, c), NEW row, NEW r
  PROVE  Attested(row, r, cf2, c) = Attested(row, r, cf, c)
<1> DEFINE verified == [row EXCEPT !.quoteVerification = "manually_verified",
                                   !.attestedBy        = r]
<1>1. EligibilityOf(verified, cf2, c) = EligibilityOf(verified, cf, c)
  BY SameEligibility
<1> QED
  BY <1>1 DEF Attested

\* A conflict put on top changes nothing of that.
LEMMA SameWithNew ==
  ASSUME NEW cf, NEW cf2, NEW c, SameConflicts(cf, cf2, c),
         NEW k, NEW v, k \notin DOMAIN cf, k \notin DOMAIN cf2
  PROVE  SameConflicts(Put(cf, k, v), Put(cf2, k, v), c)
<1>1. ASSUME NEW f, k \notin DOMAIN f
      PROVE  RelatedConflicts(Put(f, k, v), c)
               = RelatedConflicts(f, c) \cup (IF c \in ClaimsOf(v) THEN {k} ELSE {})
  BY <1>1 DEF RelatedConflicts, Put
<1>2. RelatedConflicts(Put(cf2, k, v), c) = RelatedConflicts(Put(cf, k, v), c)
  BY <1>1 DEF SameConflicts
<1>3. ASSUME NEW j \in RelatedConflicts(Put(cf, k, v), c)
      PROVE  Put(cf2, k, v)[j] = Put(cf, k, v)[j]
  <2>1. CASE j = k
    BY <2>1 DEF Put
  <2>2. CASE j # k
    BY <2>2, <1>1, <1>3 DEF Put, SameConflicts, RelatedConflicts
  <2> QED
    BY <2>1, <2>2
<1> QED
  BY <1>2, <1>3 DEF SameConflicts

LEMMA SameOpenConflicts ==
  ASSUME NEW cf, NEW cf2, NEW a, NEW b, SameConflicts(cf, cf2, a), NEW k,
         ~OtherOpenConflict(cf, a, b, k)
  PROVE  ~OtherOpenConflict(cf2, a, b, k)
BY DEF OtherOpenConflict, SameConflicts, RelatedConflicts

LEMMA SamePositions ==
  ASSUME NEW sec, NEW sec2, DOMAIN sec2 = DOMAIN sec,
         \A s \in DOMAIN sec : sec2[s].position = sec[s].position
  PROVE  NextPosition(sec2) = NextPosition(sec)
<1>1. {sec2[s].position : s \in DOMAIN sec2} = {sec[s].position : s \in DOMAIN sec}
  OBVIOUS
<1> QED
  BY <1>1 DEF NextPosition

-----------------------------------------------------------------------------
(***************************************************************************)
(* What a step does to the request that takes it.                          *)
(***************************************************************************)

\* y is request x at label l with changes t.
Becomes(x, y, l, t) ==
  /\ IsRequest(y)
  /\ y.at = l /\ y.call = x.call /\ y.expected = x.expected /\ y.tx = t

\* Only request r moves, to request y with locks H, and no row changes.
Moves(r, y, H) ==
  /\ UNCHANGED <<matter, chains>>
  /\ req' = [q \in Requests |-> IF q = r THEN y ELSE req[q]]
  /\ held' = [q \in Requests |-> IF q = r THEN H ELSE held[q]]

\* A request that ended.
IsOver(x, y) ==
  /\ IsRequest(y)
  /\ y.at = "done" /\ y.call = x.call /\ y.tx = NoChanges

LEMMA RowsAre ==
  /\ Rows.sources = sources /\ Rows.claim = claim /\ Rows.conflict = conflict
  /\ Rows.section = section /\ Rows.packets = packets
  /\ Rows.events = Len(log) /\ Rows.decided = Len(decisions)
BY DEF Rows

LEMMA RowsStay == UNCHANGED <<matter, chains>> => Rows' = Rows
BY DEF matter, chains, Rows

LEMMA RequestAt ==
  ASSUME NEW x, IsRequest(x), NEW l
  PROVE  Becomes(x, [x EXCEPT !.at = l], l, x.tx)
BY DEF IsRequest, HasFields, Becomes

LEMMA RequestChanged ==
  ASSUME NEW x, IsRequest(x), NEW l, NEW t, IsChanges(t)
  PROVE  Becomes(x, [x EXCEPT !.at = l, !.tx = t], l, t)
BY DEF IsRequest, HasFields, Becomes

LEMMA NoChangesIs ==
  /\ IsChanges(NoChanges)
  /\ NoChanges.sources = {} /\ NoChanges.claim = NoRows /\ NoChanges.conflict = NoRows
  /\ NoChanges.section = NoRows /\ NoChanges.packet = <<>> /\ NoChanges.log = <<>>
  /\ NoChanges.decision = <<>> /\ NoChanges.revision = {} /\ NoChanges.root = 0
BY DEF NoChanges, IsChanges, HasFields

LEMMA IdleIs ==
  /\ IsRequest(Idle)
  /\ Idle.at = "idle" /\ Idle.call = [op |-> "none"] /\ Idle.tx = NoChanges
  /\ Idle.call.op = "none"
BY NoChangesIs DEF Idle, IsRequest, HasFields

\* The request as an aborted and as a committed transaction leave it.
OverWith(x, reply) == [Idle EXCEPT !.at = "done", !.call = x.call, !.reply = reply]

LEMMA OverIs ==
  ASSUME NEW x, NEW reply
  PROVE  IsOver(x, OverWith(x, reply)) /\ OverWith(x, reply).reply = reply
BY IdleIs DEF OverWith, IsOver, IsRequest, HasFields

LEMMA GotoMoves ==
  ASSUME Shaped, NEW r \in Requests, NEW l, Goto(r, l), UNCHANGED <<matter, chains>>,
         NEW H, held' = [held EXCEPT ![r] = H]
  PROVE  Moves(r, [req[r] EXCEPT !.at = l], H)
BY DEF Shaped, Goto, Moves

LEMMA ChangeMoves ==
  ASSUME Shaped, NEW r \in Requests, NEW l, NEW t, Change(r, t, l),
         UNCHANGED <<matter, chains, held>>
  PROVE  Moves(r, [req[r] EXCEPT !.at = l, !.tx = t], held[r])
BY DEF Shaped, Change, Moves

LEMMA AbortMoves ==
  ASSUME Shaped, NEW r \in Requests, NEW reply, Abort(r, reply)
  PROVE  Moves(r, OverWith(req[r], reply), {})
BY DEF Shaped, Abort, Moves, OverWith, Call

\* Holding one more lock.
LEMMA TakeIs ==
  ASSUME Shaped, NEW r \in Requests, NEW lock, Take(r, lock)
  PROVE  /\ held' = [held EXCEPT ![r] = held[r] \cup {lock}]
         /\ \A q \in Requests : q # r => lock \notin held[q]
BY DEF Shaped, Take, Blockers, Holders

-----------------------------------------------------------------------------
(***************************************************************************)
(* The steps a request takes on its own: what is true of it stays true.    *)
(***************************************************************************)

LEMMA CallFields ==
  ASSUME NEW call \in CallRecords
  PROVE  /\ call.op \in {"create", "upload", "flag", "decide", "verify", "draft", "revise",
                         "approve", "packet"}
         /\ call.by \in Reviewers
         /\ call.op \in {"create", "upload"} => call.source \in Sources
         /\ call.op = "create"  => call.quote \in QuoteChoices
         /\ call.op = "flag"    => call.a \in Claims /\ call.b \in Claims /\ call.severity \in SeverityChoices
         /\ call.op = "decide"  => /\ call.conflict \in Conflicts /\ call.decision \in DecisionTypes
                                   /\ call.selected \in {"a", "b"}
         /\ call.op = "verify"  => call.claim \in Claims
         /\ call.op \in {"draft", "revise"} => /\ call.ref \in ParagraphRefs
                                               /\ call.cited \in SUBSET Claims /\ call.cited # {}
         /\ call.op \in {"revise", "approve"} => call.section \in Sections
         /\ call.op = "packet"  => /\ call.type \in {"internal", "production"}
                                   /\ call.key \in PacketKeys \cup {NoKey}
BY DEF CallRecords, Case!PacketTypes

LEMMA OverLocal ==
  ASSUME NEW x, NEW y, NEW M, IsOver(x, y)
  PROVE  Local(y, {}, M)
BY DEF IsOver, Local

\* The withdrawal of approvals starts with nothing in the section table.
LEMMA WriteSourceLocal ==
  ASSUME NEW x, NEW y, NEW H, NEW M, Local(x, H, M),
         x.at = "write", x.call.op = "upload",
         Becomes(x, y, "audit", [x.tx EXCEPT !.sources = {x.call.source}])
  PROVE  Local(y, H, M)
<1>1. y.at = "audit" /\ y.call = x.call /\ y.tx = [NoChanges EXCEPT !.sources = {x.call.source}]
  BY DEF Becomes, Local, Unwritten
<1>2. /\ y.tx.sources = {y.call.source} /\ y.tx.claim = NoRows /\ y.tx.conflict = NoRows
      /\ y.tx.decision = <<>> /\ y.tx.section = NoRows /\ y.tx.log = <<>>
      /\ y.tx.revision = {} /\ y.tx.packet = <<>>
  BY <1>1, NoChangesIs DEF IsChanges, HasFields
<1>3. Uploading(x, H, M) /\ x.call \in CallRecords
  BY DEF Local
<1>4. Uploading(y, H, M)
  BY <1>1, <1>2, <1>3 DEF Uploading, Audited, Written, Late
<1> QED
  BY <1>1, <1>3, <1>4 DEF Local, Unwritten

LEMMA WriteClaimLocal ==
  ASSUME NEW x, NEW y, NEW H, NEW M, Local(x, H, M),
         x.at = "write", x.call.op = "create", NEW c \in Claims, c \notin DOMAIN M.claim,
         Becomes(x, y, "audit", [x.tx EXCEPT !.claim =
           Only(c, ExtractedClaim(x.call.by, Privilege[x.call.source], x.call.quote))])
  PROVE  Local(y, H, M)
<1> DEFINE new == ExtractedClaim(x.call.by, Privilege[x.call.source], x.call.quote)
<1>1. y.at = "audit" /\ y.call = x.call /\ y.tx = [NoChanges EXCEPT !.claim = Only(c, new)]
  BY DEF Becomes, Local, Unwritten
<1>2. /\ y.tx.sources = {} /\ y.tx.claim = Only(c, new) /\ y.tx.conflict = NoRows
      /\ y.tx.decision = <<>> /\ y.tx.section = NoRows /\ y.tx.log = <<>>
      /\ y.tx.revision = {} /\ y.tx.packet = <<>>
  BY <1>1, NoChangesIs DEF IsChanges, HasFields
<1>3. Creating(x, H, M) /\ x.call \in CallRecords
  BY DEF Local
<1>4. Creating(y, H, M)
  BY <1>1, <1>2, <1>3 DEF Creating, Audited, Written, Late
<1> QED
  BY <1>1, <1>3, <1>4 DEF Local, Unwritten

LEMMA WriteConflictLocal ==
  ASSUME NEW x, NEW y, NEW H, NEW M, Local(x, H, M),
         x.at = "write", x.call.op = "flag", NEW k \in Conflicts, k \notin DOMAIN M.conflict,
         ~OtherOpenConflict(M.conflict, x.call.a, x.call.b, k),
         NEW new, new = FlaggedConflict(x.call.a, x.call.b, x.call.severity),
         Becomes(x, y, "audit",
           [x.tx EXCEPT !.conflict = Only(k, new),
                        !.claim = Only(x.call.a, Recompute(M.claim[x.call.a],
                                     Overlay(M.conflict, Only(k, new)), x.call.a))])
  PROVE  Local(y, H, M)
<1> DEFINE rows == Only(x.call.a, Recompute(M.claim[x.call.a],
                                     Overlay(M.conflict, Only(k, new)), x.call.a))
<1>1. /\ y.at = "audit" /\ y.call = x.call
      /\ y.tx = [NoChanges EXCEPT !.conflict = Only(k, new), !.claim = rows]
  BY DEF Becomes, Local, Unwritten
<1>2. /\ y.tx.sources = {} /\ y.tx.claim = rows /\ y.tx.conflict = Only(k, new)
      /\ y.tx.decision = <<>> /\ y.tx.section = NoRows /\ y.tx.log = <<>>
      /\ y.tx.revision = {} /\ y.tx.packet = <<>>
  BY <1>1, NoChangesIs DEF IsChanges, HasFields
<1>3. Flagging(x, H, M) /\ x.call \in CallRecords
  BY DEF Local
<1>4. rows = FlaggedClaims(M, k, new, {x.call.a})
  <2>1. Overlay(M.conflict, Only(k, new)) = Put(M.conflict, k, new)
    BY OverlayOnly
  <2> QED
    BY <2>1 DEF FlaggedClaims, Only
<1> HIDE DEF rows
<1>5. Flagging(y, H, M)
  BY <1>1, <1>2, <1>3, <1>4 DEF Flagging, Audited, Written, Late
<1> QED
  BY <1>1, <1>3, <1>5 DEF Local, Unwritten

LEMMA WriteAttestationLocal ==
  ASSUME NEW x, NEW y, NEW H, NEW M, Local(x, H, M),
         x.at = "write", x.call.op = "verify",
         M.claim[x.call.claim].quoteVerification = "manual_verification_required",
         M.claim[x.call.claim].author # x.call.by,
         Becomes(x, y, "audit", [x.tx EXCEPT !.claim =
           Only(x.call.claim, Attested(M.claim[x.call.claim], x.call.by, M.conflict, x.call.claim))])
  PROVE  Local(y, H, M)
<1> DEFINE rows == Only(x.call.claim,
                        Attested(M.claim[x.call.claim], x.call.by, M.conflict, x.call.claim))
<1>1. y.at = "audit" /\ y.call = x.call /\ y.tx = [NoChanges EXCEPT !.claim = rows]
  BY DEF Becomes, Local, Unwritten
<1>2. /\ y.tx.sources = {} /\ y.tx.claim = rows /\ y.tx.conflict = NoRows
      /\ y.tx.decision = <<>> /\ y.tx.section = NoRows /\ y.tx.log = <<>>
      /\ y.tx.revision = {} /\ y.tx.packet = <<>>
  BY <1>1, NoChangesIs DEF IsChanges, HasFields
<1>3. Verifying(x, H, M) /\ x.call \in CallRecords
  BY DEF Local
<1>4. Verifying(y, H, M)
  BY <1>1, <1>2, <1>3 DEF Verifying, Audited, Written, Late
<1> QED
  BY <1>1, <1>3, <1>4 DEF Local, Unwritten

LEMMA WriteDraftLocal ==
  ASSUME NEW x, NEW y, NEW H, NEW M, Local(x, H, M),
         x.at = "write", x.call.op = "draft", NEW s \in Sections, s \notin DOMAIN M.section,
         ParagraphRefFree(M.section, x.call.ref, s),
         VisibleIn(M, Role[x.call.by], x.call.cited),
         Becomes(x, y, "audit",
           [x.tx EXCEPT !.section = Only(s, DraftedSection(x.call.ref, NextPosition(M.section), x.call.cited)),
                        !.revision = {[section |-> s, number |-> 1, parent |-> 0, saw |-> 0]}])
  PROVE  Local(y, H, M)
<1> DEFINE rows == Only(s, DraftedSection(x.call.ref, NextPosition(M.section), x.call.cited))
           first == {[section |-> s, number |-> 1, parent |-> 0, saw |-> 0]}
<1>1. /\ y.at = "audit" /\ y.call = x.call
      /\ y.tx = [NoChanges EXCEPT !.section = rows, !.revision = first]
  BY DEF Becomes, Local, Unwritten
<1>2. /\ y.tx.sources = {} /\ y.tx.claim = NoRows /\ y.tx.conflict = NoRows
      /\ y.tx.decision = <<>> /\ y.tx.section = rows /\ y.tx.log = <<>>
      /\ y.tx.revision = first /\ y.tx.packet = <<>>
  BY <1>1, NoChangesIs DEF IsChanges, HasFields
<1>3. Drafting(x, H, M) /\ x.call \in CallRecords
  BY DEF Local
<1>4. Drafting(y, H, M)
  BY <1>1, <1>2, <1>3 DEF Drafting, EvidenceUntouched, OneEvent, Written
<1> QED
  BY <1>1, <1>3, <1>4 DEF Local, Unwritten

LEMMA WriteRevisionLocal ==
  ASSUME NEW x, NEW y, NEW H, NEW M, Local(x, H, M),
         x.at = "write", x.call.op = "revise",
         ParagraphRefFree(M.section, x.call.ref, x.call.section),
         VisibleIn(M, Role[x.call.by], x.call.cited),
         NEW s, s = x.call.section,
         Becomes(x, y, "audit",
           [x.tx EXCEPT !.section = Only(s, Revised(M.section[s], x.call.ref, x.call.cited)),
                        !.revision = {[section |-> s, number |-> M.section[s].version + 1,
                                       parent |-> M.section[s].version, saw |-> x.expected]}])
  PROVE  Local(y, H, M)
<1> DEFINE rows == Only(s, Revised(M.section[s], x.call.ref, x.call.cited))
<1>1. Revising(x, H, M) /\ x.call \in CallRecords
  BY DEF Local
<1>2. /\ y.at = "audit" /\ y.call = x.call /\ y.expected = x.expected
      /\ y.tx = [NoChanges EXCEPT !.section = rows, !.revision = {RevisionAfter(M, s)}]
  BY <1>1 DEF Becomes, Local, Unwritten, RevisionAfter, Revising, HoldsSection
<1>3. /\ y.tx.sources = {} /\ y.tx.claim = NoRows /\ y.tx.conflict = NoRows
      /\ y.tx.decision = <<>> /\ y.tx.section = rows /\ y.tx.log = <<>>
      /\ y.tx.revision = {RevisionAfter(M, s)} /\ y.tx.packet = <<>>
  BY <1>2, NoChangesIs DEF IsChanges, HasFields
<1>4. Revising(y, H, M)
  BY <1>1, <1>2, <1>3 DEF Revising, HoldsSection, EvidenceUntouched, OneEvent, Written
<1> QED
  BY <1>1, <1>2, <1>4 DEF Local, Unwritten

LEMMA LockConflictLocal ==
  ASSUME NEW x, NEW y, NEW H, NEW M, Local(x, H, M),
         x.at = "conflict", NEW k, k = x.call.conflict,
         M.conflict[k].version = x.expected,
         DecisionPermitted(x.call.decision, Role[x.call.by], M.conflict[k].severity),
         VisibleIn(M, Role[x.call.by], ClaimsOf(M.conflict[k])),
         Becomes(x, y, "claims", x.tx)
  PROVE  Local(y, H \cup {ConflictLock(k)}, M)
<1>1. x.call \in CallRecords /\ x.call.op = "decide" /\ x.tx = NoChanges
  BY CallFields DEF Local, Unwritten, Uploading, Creating, Verifying, Flagging, Drafting,
                    Revising, Approving, Packing, Written
<1>2. Deciding(x, H, M)
  BY <1>1 DEF Local
<1>3. Deciding(y, H \cup {ConflictLock(k)}, M)
  BY <1>1, <1>2 DEF Becomes, Deciding, Written
<1> QED
  BY <1>1, <1>3 DEF Becomes, Local, Unwritten

\* The claims request x locks.
PairOf(x, M) ==
  CASE x.call.op = "flag"   -> {x.call.a, x.call.b}
    [] x.call.op = "decide" -> ClaimsOf(M.conflict[x.call.conflict])
    [] x.call.op = "verify" -> {x.call.claim}
    [] OTHER                -> {}

LEMMA LockClaimLocal ==
  ASSUME NEW x, NEW y, NEW H, NEW H2, NEW M, Local(x, H, M), H \subseteq H2,
         x.at = "claims", NEW l, Becomes(x, y, l, x.tx),
         \/ l = "claims"
         \/ /\ l = IF x.call.op = "decide" THEN "audit" ELSE "write"
            /\ ClaimLocks(PairOf(x, M)) \subseteq H2
  PROVE  Local(y, H2, M)
<1>1. /\ x.call \in CallRecords /\ x.call.op \in {"decide", "flag", "verify"}
      /\ x.tx = NoChanges /\ y.tx = NoChanges /\ y.call = x.call /\ y.at = l
      /\ y.expected = x.expected
  BY CallFields DEF Local, Unwritten, Uploading, Creating, Drafting,
                    Revising, Approving, Packing, Written, Becomes
<1>2. CASE x.call.op = "decide"
  <2>1. Deciding(x, H, M)
    BY <1>1, <1>2 DEF Local
  <2>2. l = "audit" => ClaimLocks(ClaimsOf(M.conflict[x.call.conflict])) \subseteq H2
    BY <1>2 DEF PairOf
  <2>3. Deciding(y, H2, M)
    BY <1>1, <1>2, <2>1, <2>2, NoChangesIs DEF Deciding, Audited, Written, Late
  <2> QED
    BY <1>1, <1>2, <2>3 DEF Local, Unwritten
<1>3. CASE x.call.op = "flag"
  <2>1. Flagging(x, H, M)
    BY <1>1, <1>3 DEF Local
  <2>2. l = "write" => ClaimLocks({x.call.a, x.call.b}) \subseteq H2
    BY <1>3 DEF PairOf
  <2>3. Flagging(y, H2, M)
    BY <1>1, <1>3, <2>1, <2>2 DEF Flagging, Written
  <2> QED
    BY <1>1, <1>3, <2>3 DEF Local, Unwritten
<1>4. CASE x.call.op = "verify"
  <2>1. Verifying(x, H, M)
    BY <1>1, <1>4 DEF Local
  <2>2. l = "write" => ClaimLock(x.call.claim) \in H2
    BY <1>4 DEF PairOf, ClaimLocks
  <2>3. Verifying(y, H2, M)
    BY <1>1, <1>4, <2>1, <2>2 DEF Verifying, Written
  <2> QED
    BY <1>1, <1>4, <2>3 DEF Local, Unwritten
<1> QED
  BY <1>1, <1>2, <1>3, <1>4

LEMMA LockSectionLocal ==
  ASSUME NEW x, NEW y, NEW H, NEW M, Local(x, H, M),
         x.at = "section", NEW s, s = x.call.section,
         x.call.op = "approve" => PacketPermitted(Role[x.call.by]),
         M.section[s].version = x.expected,
         Becomes(x, y, IF x.call.op = "approve" THEN "audit" ELSE "catalog", x.tx)
  PROVE  Local(y, H \cup {SectionLock(s)}, M)
<1>1. /\ x.call \in CallRecords /\ x.call.op \in {"revise", "approve"} /\ x.tx = NoChanges
      /\ y.tx = NoChanges /\ y.call = x.call /\ y.expected = x.expected
      /\ y.at = IF x.call.op = "approve" THEN "audit" ELSE "catalog"
  BY CallFields DEF Local, Unwritten, Uploading, Creating, Verifying, Flagging, Drafting,
                    Deciding, Packing, Written, Becomes
<1>2. CASE x.call.op = "revise"
  <2>1. Revising(x, H, M)
    BY <1>1, <1>2 DEF Local
  <2>2. Revising(y, H \cup {SectionLock(s)}, M)
    BY <1>1, <1>2, <2>1 DEF Revising, HoldsSection, Written
  <2> QED
    BY <1>1, <1>2, <2>2 DEF Local, Unwritten
<1>3. CASE x.call.op = "approve"
  <2>1. Approving(x, H, M)
    BY <1>1, <1>3 DEF Local
  <2>2. Approving(y, H \cup {SectionLock(s)}, M)
    BY <1>1, <1>3, <2>1 DEF Approving, HoldsSection, Written
  <2> QED
    BY <1>1, <1>3, <2>2 DEF Local, Unwritten
<1> QED
  BY <1>1, <1>2, <1>3

LEMMA LockCatalogLocal ==
  ASSUME NEW x, NEW y, NEW H, NEW M, Local(x, H, M),
         x.at = "catalog", Becomes(x, y, "write", x.tx)
  PROVE  Local(y, H \cup {CatalogLock}, M)
<1>1. /\ x.call \in CallRecords /\ x.call.op \in {"revise", "draft"} /\ x.tx = NoChanges
      /\ y.tx = NoChanges /\ y.call = x.call /\ y.expected = x.expected /\ y.at = "write"
  BY CallFields DEF Local, Unwritten, Uploading, Creating, Verifying, Flagging, Approving,
                    Deciding, Packing, Written, Becomes
<1>2. CASE x.call.op = "revise"
  <2>1. Revising(x, H, M)
    BY <1>1, <1>2 DEF Local
  <2>2. Revising(y, H \cup {CatalogLock}, M)
    BY <1>1, <1>2, <2>1 DEF Revising, HoldsSection, Written
  <2> QED
    BY <1>1, <1>2, <2>2 DEF Local, Unwritten
<1>3. CASE x.call.op = "draft"
  <2>1. Drafting(x, H, M)
    BY <1>1, <1>3 DEF Local
  <2>2. Drafting(y, H \cup {CatalogLock}, M)
    BY <1>1, <1>3, <2>1 DEF Drafting, Written
  <2> QED
    BY <1>1, <1>3, <2>2 DEF Local, Unwritten
<1> QED
  BY <1>1, <1>2, <1>3

\* The audit lock is taken, and the rows stay as they are.
LEMMA LockAuditLocal ==
  ASSUME NEW x, NEW y, NEW H, NEW M, Local(x, H, M),
         x.at = "audit",
         Becomes(x, y, IF x.call.op \in EvidenceOps THEN "reset" ELSE "append", x.tx)
  PROVE  Local(y, H \cup {AuditLock}, M)
<1> DEFINE H2 == H \cup {AuditLock}
<1>0. /\ x.call \in CallRecords /\ y.call = x.call /\ y.expected = x.expected /\ y.tx = x.tx
      /\ x.call.op \in {"create", "upload", "flag", "decide", "verify", "draft", "revise",
                        "approve", "packet"}
      /\ y.at = IF x.call.op \in EvidenceOps THEN "reset" ELSE "append"
  BY CallFields DEF Local, Becomes
<1>1. CASE x.call.op = "upload"
  <2>1. y.at = "reset" /\ Uploading(x, H, M)
    BY <1>0, <1>1 DEF Local, EvidenceOps
  <2>2. Uploading(y, H2, M)
    BY <1>0, <1>1, <2>1 DEF Uploading, Audited, Written, Late
  <2> QED
    BY <1>0, <1>1, <2>1, <2>2 DEF Local, Unwritten
<1>2. CASE x.call.op = "create"
  <2>1. y.at = "reset" /\ Creating(x, H, M)
    BY <1>0, <1>2 DEF Local, EvidenceOps
  <2>2. Creating(y, H2, M)
    BY <1>0, <1>2, <2>1 DEF Creating, Audited, Written, Late
  <2> QED
    BY <1>0, <1>2, <2>1, <2>2 DEF Local, Unwritten
<1>3. CASE x.call.op = "verify"
  <2>1. y.at = "reset" /\ Verifying(x, H, M)
    BY <1>0, <1>3 DEF Local, EvidenceOps
  <2>2. Verifying(y, H2, M)
    BY <1>0, <1>3, <2>1 DEF Verifying, Audited, Written, Late
  <2> QED
    BY <1>0, <1>3, <2>1, <2>2 DEF Local, Unwritten
<1>4. CASE x.call.op = "flag"
  <2>1. y.at = "reset" /\ Flagging(x, H, M)
    BY <1>0, <1>4 DEF Local, EvidenceOps
  <2>2. Flagging(y, H2, M)
    BY <1>0, <1>4, <2>1 DEF Flagging, Audited, Written, Late
  <2> QED
    BY <1>0, <1>4, <2>1, <2>2 DEF Local, Unwritten
<1>5. CASE x.call.op = "decide"
  <2>1. y.at = "reset" /\ Deciding(x, H, M)
    BY <1>0, <1>5 DEF Local, EvidenceOps
  <2>2. Deciding(y, H2, M)
    BY <1>0, <1>5, <2>1 DEF Deciding, Audited, Written, Late
  <2> QED
    BY <1>0, <1>5, <2>1, <2>2 DEF Local, Unwritten
<1>6. CASE x.call.op = "draft"
  <2>1. y.at = "append" /\ Drafting(x, H, M)
    BY <1>0, <1>6 DEF Local, EvidenceOps
  <2>2. Drafting(y, H2, M)
    BY <1>0, <1>6, <2>1 DEF Drafting, OneEvent, EvidenceUntouched, Written
  <2> QED
    BY <1>0, <1>6, <2>1, <2>2 DEF Local, Unwritten
<1>7. CASE x.call.op = "revise"
  <2>1. y.at = "append" /\ Revising(x, H, M)
    BY <1>0, <1>7 DEF Local, EvidenceOps
  <2>2. Revising(y, H2, M)
    BY <1>0, <1>7, <2>1 DEF Revising, HoldsSection, OneEvent, EvidenceUntouched, Written
  <2> QED
    BY <1>0, <1>7, <2>1, <2>2 DEF Local, Unwritten
<1>8. CASE x.call.op = "approve"
  <2>1. y.at = "append" /\ Approving(x, H, M)
    BY <1>0, <1>8 DEF Local, EvidenceOps
  <2>2. Approving(y, H2, M)
    BY <1>0, <1>8, <2>1 DEF Approving, HoldsSection
  <2> QED
    BY <1>0, <1>8, <2>1, <2>2 DEF Local, Unwritten
<1>9. CASE x.call.op = "packet"
  <2>1. y.at = "append" /\ Packing(x, H, M)
    BY <1>0, <1>9 DEF Local, EvidenceOps
  <2>2. Packing(y, H2, M)
    BY <1>0, <1>9, <2>1 DEF Packing, OneEvent, EvidenceUntouched, Rendered
  <2> QED
    BY <1>0, <1>9, <2>1, <2>2 DEF Local, Unwritten
<1> QED
  BY <1>0, <1>1, <1>2, <1>3, <1>4, <1>5, <1>6, <1>7, <1>8, <1>9

\* The UPDATE locks one more section row.
LEMMA HoldMoreLocal ==
  ASSUME NEW x, NEW H, NEW H2, NEW M, Local(x, H, M), H \subseteq H2, x.at \notin {"idle", "done"}
  PROVE  Local(x, H2, M)
<1>1. x.call \in CallRecords
  BY DEF Local
<1>2. x.call.op = "upload" => Uploading(x, H2, M)
  BY DEF Local, Uploading, Audited
<1>3. x.call.op = "create" => Creating(x, H2, M)
  BY DEF Local, Creating, Audited
<1>4. x.call.op = "verify" => Verifying(x, H2, M)
  BY DEF Local, Verifying, Audited
<1>5. x.call.op = "flag" => Flagging(x, H2, M)
  BY DEF Local, Flagging, Audited
<1>6. x.call.op = "decide" => Deciding(x, H2, M)
  BY DEF Local, Deciding, Audited
<1>7. x.call.op = "draft" => Drafting(x, H2, M)
  BY DEF Local, Drafting
<1>8. x.call.op = "revise" => Revising(x, H2, M)
  BY DEF Local, Revising, HoldsSection
<1>9. x.call.op = "approve" => Approving(x, H2, M)
  BY DEF Local, Approving, HoldsSection
<1>10. x.call.op = "packet" => Packing(x, H2, M)
  BY DEF Local, Packing
<1> QED
  BY <1>1, <1>2, <1>3, <1>4, <1>5, <1>6, <1>7, <1>8, <1>9, <1>10 DEF Local

\* The approvals are withdrawn once every section is locked.
LEMMA ResetSectionsLocal ==
  ASSUME NEW x, NEW y, NEW H, NEW M, Local(x, H, M), IsChanges(x.tx),
         x.at = "reset", \A s \in DOMAIN M.section : SectionLock(s) \in H,
         Becomes(x, y, "append",
                 [x.tx EXCEPT !.section = ResetApprovals(M.section, DOMAIN M.section)])
  PROVE  Local(y, H, M)
<1>1. /\ y.at = "append" /\ y.call = x.call /\ y.expected = x.expected
      /\ y.tx.section = ResetApprovals(M.section, DOMAIN M.section)
      /\ y.tx.sources = x.tx.sources /\ y.tx.claim = x.tx.claim
      /\ y.tx.conflict = x.tx.conflict /\ y.tx.decision = x.tx.decision
      /\ y.tx.log = x.tx.log /\ y.tx.revision = x.tx.revision /\ y.tx.packet = x.tx.packet
  BY DEF Becomes, IsChanges, HasFields
<1>2. /\ x.call \in CallRecords
      /\ x.call.op \in {"upload", "create", "verify", "flag", "decide"}
      /\ AuditLock \in H
  BY CallFields DEF Local, Drafting, Revising, Approving, Packing
<1>3. CASE x.call.op = "upload"
  <2>1. Uploading(x, H, M)
    BY <1>2, <1>3 DEF Local
  <2>2. Uploading(y, H, M)
    BY <1>1, <1>3, <2>1 DEF Uploading, Audited, Written, Late
  <2> QED
    BY <1>1, <1>2, <1>3, <2>2 DEF Local, Unwritten
<1>4. CASE x.call.op = "create"
  <2>1. Creating(x, H, M)
    BY <1>2, <1>4 DEF Local
  <2>2. Creating(y, H, M)
    BY <1>1, <1>4, <2>1 DEF Creating, Audited, Written, Late
  <2> QED
    BY <1>1, <1>2, <1>4, <2>2 DEF Local, Unwritten
<1>5. CASE x.call.op = "verify"
  <2>1. Verifying(x, H, M)
    BY <1>2, <1>5 DEF Local
  <2>2. Verifying(y, H, M)
    BY <1>1, <1>5, <2>1 DEF Verifying, Audited, Written, Late
  <2> QED
    BY <1>1, <1>2, <1>5, <2>2 DEF Local, Unwritten
<1>6. CASE x.call.op = "flag"
  <2>1. Flagging(x, H, M)
    BY <1>2, <1>6 DEF Local
  <2>2. Flagging(y, H, M)
    BY <1>1, <1>6, <2>1 DEF Flagging, Audited, Written, Late
  <2> QED
    BY <1>1, <1>2, <1>6, <2>2 DEF Local, Unwritten
<1>7. CASE x.call.op = "decide"
  <2>1. Deciding(x, H, M)
    BY <1>2, <1>7 DEF Local
  <2>2. Deciding(y, H, M)
    BY <1>1, <1>7, <2>1 DEF Deciding, Audited, Written, Late
  <2> QED
    BY <1>1, <1>2, <1>7, <2>2 DEF Local, Unwritten
<1> QED
  BY <1>2, <1>3, <1>4, <1>5, <1>6, <1>7

\* The one event of an operation that wrote its rows before.
LEMMA AppendEventLocal ==
  ASSUME NEW x, NEW y, NEW H, NEW M, Local(x, H, M), IsChanges(x.tx),
         x.at = "append", x.call.op \in {"create", "upload", "verify", "draft", "revise"},
         Becomes(x, y, "commit", [x.tx EXCEPT !.log = Events(M.events, 1)])
  PROVE  Local(y, H, M)
<1>1. /\ y.at = "commit" /\ y.call = x.call /\ y.expected = x.expected
      /\ y.tx.section = x.tx.section
      /\ y.tx.sources = x.tx.sources /\ y.tx.claim = x.tx.claim
      /\ y.tx.conflict = x.tx.conflict /\ y.tx.decision = x.tx.decision
      /\ y.tx.log = Events(M.events, 1) /\ y.tx.revision = x.tx.revision
      /\ y.tx.packet = x.tx.packet
  BY DEF Becomes, IsChanges, HasFields
<1>2. x.call \in CallRecords /\ AuditLock \in H
  BY DEF Local
<1>3. CASE x.call.op = "upload"
  <2>1. Uploading(x, H, M)
    BY <1>2, <1>3 DEF Local
  <2>2. Uploading(y, H, M)
    BY <1>1, <1>3, <2>1 DEF Uploading, Audited, Written, Late
  <2> QED
    BY <1>1, <1>2, <1>3, <2>2 DEF Local, Unwritten
<1>4. CASE x.call.op = "create"
  <2>1. Creating(x, H, M)
    BY <1>2, <1>4 DEF Local
  <2>2. Creating(y, H, M)
    BY <1>1, <1>4, <2>1 DEF Creating, Audited, Written, Late
  <2> QED
    BY <1>1, <1>2, <1>4, <2>2 DEF Local, Unwritten
<1>5. CASE x.call.op = "verify"
  <2>1. Verifying(x, H, M)
    BY <1>2, <1>5 DEF Local
  <2>2. Verifying(y, H, M)
    BY <1>1, <1>5, <2>1 DEF Verifying, Audited, Written, Late
  <2> QED
    BY <1>1, <1>2, <1>5, <2>2 DEF Local, Unwritten
<1>6. CASE x.call.op = "draft"
  <2>1. Drafting(x, H, M)
    BY <1>2, <1>6 DEF Local
  <2>2. Drafting(y, H, M)
    BY <1>1, <1>6, <2>1 DEF Drafting, EvidenceUntouched, OneEvent, Written
  <2> QED
    BY <1>1, <1>2, <1>6, <2>2 DEF Local, Unwritten
<1>7. CASE x.call.op = "revise"
  <2>1. Revising(x, H, M)
    BY <1>2, <1>7 DEF Local
  <2>2. Revising(y, H, M)
    BY <1>1, <1>7, <2>1 DEF Revising, EvidenceUntouched, OneEvent, Written, HoldsSection
  <2> QED
    BY <1>1, <1>2, <1>7, <2>2 DEF Local, Unwritten
<1> QED
  BY <1>3, <1>4, <1>5, <1>6, <1>7

LEMMA AppendFlagLocal ==
  ASSUME NEW x, NEW y, NEW H, NEW M, Local(x, H, M), IsChanges(x.tx),
         x.at = "append", x.call.op = "flag", NEW b, b = x.call.b,
         Becomes(x, y, "commit",
           [x.tx EXCEPT
              !.claim = Put(x.tx.claim, b, Recompute(Overlay(M.claim, x.tx.claim)[b],
                                                     Overlay(M.conflict, x.tx.conflict), b)),
              !.log   = Events(M.events, 3)])
  PROVE  Local(y, H, M)
<1> DEFINE rows == Put(x.tx.claim, b, Recompute(Overlay(M.claim, x.tx.claim)[b],
                                                Overlay(M.conflict, x.tx.conflict), b))
           a    == x.call.a
           new  == FlaggedConflict(a, b, x.call.severity)
<1>1. /\ y.at = "commit" /\ y.call = x.call
      /\ y.tx.section = x.tx.section /\ y.tx.sources = x.tx.sources /\ y.tx.claim = rows
      /\ y.tx.conflict = x.tx.conflict /\ y.tx.decision = x.tx.decision
      /\ y.tx.log = Events(M.events, 3) /\ y.tx.revision = x.tx.revision
      /\ y.tx.packet = x.tx.packet
  BY DEF Becomes, IsChanges, HasFields
<1>2. x.call \in CallRecords /\ AuditLock \in H /\ Flagging(x, H, M)
  BY DEF Local
<1>3. PICK k \in Conflicts :
        /\ k \notin DOMAIN M.conflict
        /\ ~OtherOpenConflict(M.conflict, a, b, k)
        /\ x.tx.conflict = Only(k, new)
        /\ x.tx.claim = FlaggedClaims(M, k, new, {a})
  BY <1>2 DEF Flagging, Written
<1>4. rows = FlaggedClaims(M, k, new, {a, b})
  <2>1. a # b /\ b \in DOMAIN M.claim
    BY <1>2 DEF Flagging, VisibleIn
  <2>2. Overlay(M.conflict, x.tx.conflict) = Put(M.conflict, k, new)
    BY <1>3, OverlayOnly
  <2>3. Overlay(M.claim, x.tx.claim)[b] = M.claim[b]
    BY <1>3, <2>1 DEF Overlay, FlaggedClaims
  <2> QED
    BY <1>3, <2>1, <2>2, <2>3 DEF Put, FlaggedClaims
<1> HIDE DEF rows, new
<1>5. \E j \in Conflicts :
        /\ j \notin DOMAIN M.conflict
        /\ ~OtherOpenConflict(M.conflict, a, b, j)
        /\ y.tx.conflict = Only(j, new)
        /\ y.tx.claim = FlaggedClaims(M, j, new, {a, b})
  BY <1>1, <1>3, <1>4
<1>6. Flagging(y, H, M)
  BY <1>1, <1>2, <1>5 DEF Flagging, Audited, Written, Late, new
<1> QED
  BY <1>1, <1>2, <1>6 DEF Local, Unwritten

LEMMA AppendDecisionLocal ==
  ASSUME NEW x, NEW y, NEW H, NEW M, Local(x, H, M), IsChanges(x.tx),
         x.at = "append", x.call.op = "decide", NEW k, k = x.call.conflict,
         Becomes(x, y, "commit",
           [x.tx EXCEPT
              !.conflict = Only(k, Verdict(x, M)),
              !.claim    = [c \in ClaimsOf(Verdict(x, M)) |-> VerdictClaims(x, M)[c]],
              !.decision = <<[conflict |-> k, saw |-> x.expected, prev |-> M.decided]>>,
              !.log      = Events(M.events, 1 + Cardinality(ChangedClaims(x, M)))])
  PROVE  Local(y, H, M)
<1>1. /\ y.at = "commit" /\ y.call = x.call /\ y.expected = x.expected
      /\ y.tx.section = x.tx.section /\ y.tx.sources = x.tx.sources
      /\ y.tx.claim = [c \in ClaimsOf(Verdict(x, M)) |-> VerdictClaims(x, M)[c]]
      /\ y.tx.conflict = Only(k, Verdict(x, M))
      /\ y.tx.decision = <<[conflict |-> k, saw |-> x.expected, prev |-> M.decided]>>
      /\ y.tx.log = Events(M.events, 1 + Cardinality(ChangedClaims(x, M)))
      /\ y.tx.revision = x.tx.revision /\ y.tx.packet = x.tx.packet
  BY DEF Becomes, IsChanges, HasFields
<1>2. x.call \in CallRecords /\ AuditLock \in H /\ Deciding(x, H, M)
  BY DEF Local
<1>3. Verdict(y, M) = Verdict(x, M)
  BY <1>1 DEF Verdict
<1>4. VerdictClaims(y, M) = VerdictClaims(x, M)
  BY <1>1, <1>3 DEF VerdictClaims
<1>5. ChangedClaims(y, M) = ChangedClaims(x, M)
  BY <1>1, <1>3, <1>4 DEF ChangedClaims
<1>6. Deciding(y, H, M)
  BY <1>1, <1>2, <1>3, <1>4, <1>5 DEF Deciding, Audited, Written, Late
<1> QED
  BY <1>1, <1>2, <1>6 DEF Local, Unwritten

LEMMA AppendApprovalLocal ==
  ASSUME NEW x, NEW y, NEW H, NEW M, Local(x, H, M), IsChanges(x.tx),
         x.at = "append", x.call.op = "approve", NEW s, s = x.call.section,
         ImpactOf(M.claim, M.conflict, M.section[s].claimIds) \in UsableSectionStatuses,
         Becomes(x, y, "commit",
           [x.tx EXCEPT
              !.section  = Only(s, ApprovedSection(M.claim, M.conflict, M.section[s])),
              !.revision = {[section |-> s, number |-> M.section[s].version + 1,
                             parent |-> M.section[s].version, saw |-> x.expected]},
              !.log      = Events(M.events, 1)])
  PROVE  Local(y, H, M)
<1>1. x.call \in CallRecords /\ AuditLock \in H /\ Approving(x, H, M)
  BY DEF Local
<1>2. {[section |-> s, number |-> M.section[s].version + 1,
        parent |-> M.section[s].version, saw |-> x.expected]} = {RevisionAfter(M, s)}
  BY <1>1 DEF RevisionAfter, Approving, HoldsSection
<1>3. /\ y.at = "commit" /\ y.call = x.call /\ y.expected = x.expected
      /\ y.tx.section = Only(s, ApprovedSection(M.claim, M.conflict, M.section[s]))
      /\ y.tx.sources = {} /\ y.tx.claim = NoRows /\ y.tx.conflict = NoRows
      /\ y.tx.decision = <<>> /\ y.tx.log = Events(M.events, 1)
      /\ y.tx.revision = {RevisionAfter(M, s)} /\ y.tx.packet = <<>>
  BY <1>1, <1>2, NoChangesIs DEF Becomes, IsChanges, HasFields, Approving
<1>4. Approving(y, H, M)
  BY <1>1, <1>3 DEF Approving, HoldsSection, EvidenceUntouched, OneEvent
<1> QED
  BY <1>1, <1>3, <1>4 DEF Local, Unwritten

\* A packet request moves on without writing: to the shared lock, to the snapshot, and
\* from the snapshot to the audit lock.
PacketMove(from, to) ==
  <<from, to>> \in {<<"replay", "share">>, <<"share", "root">>, <<"release", "audit">>}

LEMMA PacketMovesLocal ==
  ASSUME NEW x, NEW y, NEW H, NEW M, Local(x, H, M), NEW l, Becomes(x, y, l, x.tx),
         PacketMove(x.at, l)
  PROVE  Local(y, H, M)
<1>1. x.call \in CallRecords /\ x.call.op = "packet" /\ Packing(x, H, M)
  BY CallFields DEF Local, Uploading, Creating, Verifying, Flagging, Deciding, Drafting,
                    Revising, Approving, Written, PacketMove
<1>2. y.at = l /\ y.call = x.call /\ y.tx = x.tx
  BY DEF Becomes
<1>3. Packing(y, H, M)
  BY <1>1, <1>2 DEF Packing, OneEvent, EvidenceUntouched, Rendered, PacketMove
<1>4. y.at \in Unwritten => y.tx = NoChanges
  BY <1>2 DEF Local, Unwritten, PacketMove
<1> QED
  BY <1>1, <1>2, <1>3, <1>4 DEF Local, PacketMove

LEMMA ReadRootLocal ==
  ASSUME NEW x, NEW y, NEW H, NEW M, Local(x, H, M), x.at = "root", M.events \in Nat,
         Becomes(x, y, "build", [x.tx EXCEPT !.root = M.events])
  PROVE  Local(y, H, M)
<1>1. x.call \in CallRecords /\ x.call.op = "packet" /\ Packing(x, H, M) /\ x.tx = NoChanges
  BY CallFields DEF Local, Uploading, Creating, Verifying, Flagging, Deciding, Drafting,
                    Revising, Approving, Written, Unwritten
<1>2. /\ y.at = "build" /\ y.call = x.call /\ y.tx.root = M.events
      /\ y.tx.sources = {} /\ y.tx.claim = NoRows /\ y.tx.conflict = NoRows
      /\ y.tx.decision = <<>> /\ y.tx.section = NoRows /\ y.tx.log = <<>>
      /\ y.tx.revision = {} /\ y.tx.packet = <<>>
  BY <1>1, NoChangesIs DEF Becomes, IsChanges, HasFields
<1>3. Packing(y, H, M)
  BY <1>1, <1>2 DEF Packing, OneEvent, EvidenceUntouched
<1> QED
  BY <1>1, <1>2, <1>3 DEF Local, Unwritten

LEMMA BuildSnapshotLocal ==
  ASSUME NEW x, NEW y, NEW H, NEW M, Local(x, H, M), IsChanges(x.tx), x.at = "build",
         Becomes(x, y, "release", [x.tx EXCEPT !.packet =
           <<[type |-> x.call.type, key |-> x.call.key, root |-> x.tx.root,
              entries |-> BuildPacket(M.claim, M.conflict, M.section, x.call.type)]>>])
  PROVE  Local(y, H, M)
<1>1. x.call \in CallRecords /\ x.call.op = "packet" /\ Packing(x, H, M)
  BY CallFields DEF Local, Uploading, Creating, Verifying, Flagging, Deciding, Drafting,
                    Revising, Approving, Written
<1>2. /\ y.at = "release" /\ y.call = x.call /\ y.tx.root = x.tx.root
      /\ y.tx.sources = x.tx.sources /\ y.tx.claim = x.tx.claim
      /\ y.tx.conflict = x.tx.conflict /\ y.tx.decision = x.tx.decision
      /\ y.tx.section = x.tx.section /\ y.tx.log = x.tx.log
      /\ y.tx.revision = x.tx.revision
      /\ y.tx.packet = <<[type |-> x.call.type, key |-> x.call.key, root |-> x.tx.root,
              entries |-> BuildPacket(M.claim, M.conflict, M.section, x.call.type)]>>
  BY DEF Becomes, IsChanges, HasFields
<1>3. Rendered(y, M)
  BY <1>2 DEF Rendered
<1>4. Packing(y, H, M)
  BY <1>1, <1>2, <1>3 DEF Packing, OneEvent, EvidenceUntouched
<1> QED
  BY <1>1, <1>2, <1>4 DEF Local, Unwritten

LEMMA RecordPacketLocal ==
  ASSUME NEW x, NEW y, NEW H, NEW M, Local(x, H, M), IsChanges(x.tx),
         x.at = "append", x.call.op = "packet",
         x.call.key \notin UsedKeys(M.packets, NoKey), M.events = x.tx.root,
         Becomes(x, y, "commit", [x.tx EXCEPT !.log = Events(M.events, 1)])
  PROVE  Local(y, H, M)
<1>1. x.call \in CallRecords /\ AuditLock \in H /\ Packing(x, H, M)
  BY DEF Local
<1>2. /\ y.at = "commit" /\ y.call = x.call /\ y.tx.root = x.tx.root
      /\ y.tx.sources = x.tx.sources /\ y.tx.claim = x.tx.claim
      /\ y.tx.conflict = x.tx.conflict /\ y.tx.decision = x.tx.decision
      /\ y.tx.section = x.tx.section /\ y.tx.log = Events(M.events, 1)
      /\ y.tx.revision = x.tx.revision /\ y.tx.packet = x.tx.packet
  BY DEF Becomes, IsChanges, HasFields
<1>3. Packing(y, H, M)
  BY <1>1, <1>2 DEF Packing, OneEvent, EvidenceUntouched, Rendered
<1> QED
  BY <1>1, <1>2, <1>3 DEF Local, Unwritten

\* A request arrives as its operation expects the rows to be.
LEMMA ArriveLocal ==
  ASSUME NEW call \in CallRecords, Submittable(call), NEW y,
         y.at = FirstStep(call.op), y.call = call, y.tx = NoChanges
  PROVE  Local(y, {}, Rows)
<1> DEFINE M == Rows
<1>1. /\ M.sources = sources /\ M.claim = claim /\ M.conflict = conflict
      /\ M.section = section
  BY RowsAre
<1>2. call.op \in {"create", "upload", "flag", "decide", "verify", "draft", "revise",
                   "approve", "packet"}
  BY CallFields
<1> HIDE DEF M
<1>3. CASE call.op = "upload"
  <2>1. Uploading(y, {}, M) /\ y.at = "write"
    BY <1>1, <1>3 DEF Uploading, Submittable, FirstStep, RoleOf, Written
  <2> QED
    BY <1>3, <2>1 DEF Local, Unwritten, M
<1>4. CASE call.op = "create"
  <2>1. Creating(y, {}, M) /\ y.at = "write"
    BY <1>1, <1>4 DEF Creating, Submittable, FirstStep, RoleOf, Written
  <2> QED
    BY <1>4, <2>1 DEF Local, Unwritten, M
<1>5. CASE call.op = "verify"
  <2>1. Verifying(y, {}, M) /\ y.at = "claims"
    BY <1>1, <1>5 DEF Verifying, Submittable, FirstStep, RoleOf, Written
  <2> QED
    BY <1>5, <2>1 DEF Local, Unwritten, M
<1>6. CASE call.op = "flag"
  <2>1. call.a # call.b /\ VisibleIn(M, Role[call.by], {call.a, call.b})
    BY <1>1, <1>6 DEF Submittable, Visible, VisibleIn, RoleOf
  <2>2. Flagging(y, {}, M) /\ y.at = "claims"
    BY <1>6, <2>1 DEF Flagging, FirstStep, Written
  <2> QED
    BY <1>6, <2>2 DEF Local, Unwritten, M
<1>7. CASE call.op = "decide"
  <2>1. Deciding(y, {}, M) /\ y.at = "conflict"
    BY <1>1, <1>7 DEF Deciding, Submittable, FirstStep, Written
  <2> QED
    BY <1>7, <2>1 DEF Local, Unwritten, M
<1>8. CASE call.op = "draft"
  <2>1. Drafting(y, {}, M) /\ y.at = "catalog"
    BY <1>8 DEF Drafting, FirstStep, Written
  <2> QED
    BY <1>8, <2>1 DEF Local, Unwritten, M
<1>9. CASE call.op = "revise"
  <2>1. Revising(y, {}, M) /\ y.at = "section"
    BY <1>1, <1>9 DEF Revising, Submittable, FirstStep, Written
  <2> QED
    BY <1>9, <2>1 DEF Local, Unwritten, M
<1>10. CASE call.op = "approve"
  <2>1. Approving(y, {}, M) /\ y.at = "section"
    BY <1>1, <1>10 DEF Approving, Submittable, FirstStep
  <2> QED
    BY <1>10, <2>1 DEF Local, Unwritten, M
<1>11. CASE call.op = "packet"
  <2>1. Packing(y, {}, M) /\ y.at = "replay"
    BY <1>11 DEF Packing, Submittable, FirstStep, RoleOf
  <2> QED
    BY <1>11, <2>1 DEF Local, Unwritten, M
<1> QED
  BY <1>2, <1>3, <1>4, <1>5, <1>6, <1>7, <1>8, <1>9, <1>10, <1>11 DEF M

-----------------------------------------------------------------------------
(***************************************************************************)
(* What other requests leave alone.                                        *)
(***************************************************************************)

\* Rows have their columns.
Typed(M) == Case!RowsTyped(M.claim, M.conflict, M.section)

LEMMA RecomputeKeeps ==
  ASSUME NEW row \in Case!ClaimRow, NEW cf, NEW c
  PROVE  Recompute(row, cf, c).privilege = row.privilege
BY DEF Recompute, Case!ClaimRow

LEMMA AttestedKeeps ==
  ASSUME NEW row \in Case!ClaimRow, NEW cf, NEW c, NEW r
  PROVE  Attested(row, r, cf, c).privilege = row.privilege
BY DEF Attested, Case!ClaimRow

LEMMA DecidedKeeps ==
  ASSUME NEW row \in Case!ConflictRow, NEW d, NEW x
  PROVE  LET new == Decided(row, d, x)
         IN  /\ new.claimA = row.claimA /\ new.claimB = row.claimB
             /\ ClaimsOf(new) = ClaimsOf(row)
             /\ new.severity = row.severity
             /\ new.version = row.version + 1
BY DEF Decided, Case!ConflictRow, ClaimsOf

LEMMA FlaggedIs ==
  ASSUME NEW a, NEW b, NEW v
  PROVE  LET new == FlaggedConflict(a, b, v)
         IN  /\ new.claimA = a /\ new.claimB = b /\ ClaimsOf(new) = {a, b}
             /\ new.version = 1 /\ new.status = "unresolved"
BY DEF FlaggedConflict, ClaimsOf

LEMMA ApprovedKeeps ==
  ASSUME NEW e, NEW row \in Case!SectionRow(e), NEW cl, NEW cf
  PROVE  LET new == ApprovedSection(cl, cf, row)
         IN  /\ new.paragraphRef = row.paragraphRef
             /\ new.position = row.position
             /\ new.version = row.version + 1
BY DEF ApprovedSection, Case!SectionRow

LEMMA RevisedKeeps ==
  ASSUME NEW e, NEW row \in Case!SectionRow(e), NEW ref, NEW cited
  PROVE  LET new == Revised(row, ref, cited)
         IN  /\ new.paragraphRef = ref
             /\ new.position = row.position
             /\ new.version = row.version + 1
BY DEF Revised, Case!SectionRow

LEMMA ResetKeeps ==
  ASSUME NEW M, Typed(M), NEW s \in DOMAIN M.section
  PROVE  LET reset == ResetApprovals(M.section, DOMAIN M.section)
         IN  /\ DOMAIN reset = DOMAIN M.section
             /\ reset[s].paragraphRef = M.section[s].paragraphRef
             /\ reset[s].position = M.section[s].position
             /\ reset[s].version = M.section[s].version
<1>1. M.section[s] \in Case!SectionRow(M.section[s].revision.evidence)
  BY DEF Typed, Case!RowsTyped
<1>2. ResetApprovals(M.section, DOMAIN M.section)[s] = [M.section[s] EXCEPT !.approvalCurrent = FALSE]
  BY DEF ResetApprovals
<1>3. DOMAIN ResetApprovals(M.section, DOMAIN M.section) = DOMAIN M.section
  BY DEF ResetApprovals
<1> QED
  BY <1>1, <1>2, <1>3 DEF Case!SectionRow

\* Every row that changes t touch is locked in H, and so are the claims of every
\* conflict, and a paragraph is given a name or a place only under the catalog lock.
CoversClaims(t, H, M) ==
  \A c \in DOMAIN t.claim \cap DOMAIN M.claim :
    ClaimLock(c) \in H /\ t.claim[c].privilege = M.claim[c].privilege

CoversConflicts(t, H, M) ==
  \A k \in DOMAIN t.conflict :
    /\ ClaimLocks(ClaimsOf(t.conflict[k])) \subseteq H
    /\ k \in DOMAIN M.conflict =>
         ConflictLock(k) \in H /\ ClaimsOf(t.conflict[k]) = ClaimsOf(M.conflict[k])

CoversSections(t, H, M) ==
  \A s \in DOMAIN t.section :
    /\ s \in DOMAIN M.section => SectionLock(s) \in H
    /\ CatalogLock \in H \/ /\ s \in DOMAIN M.section
                            /\ t.section[s].paragraphRef = M.section[s].paragraphRef
                            /\ t.section[s].position = M.section[s].position

Covers(t, H, M) == CoversClaims(t, H, M) /\ CoversConflicts(t, H, M) /\ CoversSections(t, H, M)

LEMMA NoRowsIs == DOMAIN NoRows = {}
BY DEF NoRows

LEMMA ResetCovered ==
  ASSUME NEW x, NEW H, NEW M, NEW n, Typed(M), Audited(x, H, M, n), x.at = "commit"
  PROVE  CoversSections(x.tx, H, M)
<1>1. /\ x.tx.section = ResetApprovals(M.section, DOMAIN M.section)
      /\ \A s \in DOMAIN M.section : SectionLock(s) \in H
  BY DEF Audited, Late
<1>2. DOMAIN x.tx.section = DOMAIN M.section
  BY <1>1 DEF ResetApprovals
<1>3. ASSUME NEW s \in DOMAIN M.section
      PROVE  /\ x.tx.section[s].paragraphRef = M.section[s].paragraphRef
             /\ x.tx.section[s].position = M.section[s].position
  BY <1>1, ResetKeeps
<1> QED
  BY <1>1, <1>2, <1>3 DEF CoversSections

LEMMA CommitCovers ==
  ASSUME NEW x, NEW H, NEW M, Local(x, H, M), Typed(M), x.at = "commit"
  PROVE  Covers(x.tx, H, M)
<1>1. /\ x.call.op \in {"create", "upload", "flag", "decide", "verify", "draft", "revise",
                        "approve", "packet"}
  BY CallFields DEF Local
<1>2. CASE x.call.op = "upload"
  <2>1. Uploading(x, H, M)
    BY <1>2 DEF Local
  <2> QED
    BY <2>1, NoRowsIs, ResetCovered DEF Uploading, Covers, CoversClaims, CoversConflicts, Written
<1>3. CASE x.call.op = "create"
  <2>1. Creating(x, H, M)
    BY <1>3 DEF Local
  <2> QED
    BY <2>1, NoRowsIs, ResetCovered DEF Creating, Covers, CoversClaims, CoversConflicts, Written, Only
<1>4. CASE x.call.op = "verify"
  <2>1. Verifying(x, H, M)
    BY <1>4 DEF Local
  <2>2. M.claim[x.call.claim] \in Case!ClaimRow
    BY <2>1 DEF Verifying, Typed, Case!RowsTyped
  <2>3. CoversClaims(x.tx, H, M)
    <3> DEFINE c == x.call.claim
    <3>1. /\ ClaimLock(c) \in H
          /\ x.tx.claim = Only(c, Attested(M.claim[c], x.call.by, M.conflict, c))
      BY <2>1 DEF Verifying, Written
    <3>2. DOMAIN x.tx.claim = {c} /\ x.tx.claim[c] = Attested(M.claim[c], x.call.by, M.conflict, c)
      BY <3>1 DEF Only
    <3>3. x.tx.claim[c].privilege = M.claim[c].privilege
      BY <2>2, <3>2, AttestedKeeps
    <3> QED
      BY <3>1, <3>2, <3>3 DEF CoversClaims
  <2> QED
    BY <2>1, <2>3, NoRowsIs, ResetCovered DEF Verifying, Covers, CoversConflicts, Written
<1>5. CASE x.call.op = "flag"
  <2> DEFINE a == x.call.a
             b == x.call.b
             new == FlaggedConflict(a, b, x.call.severity)
  <2>1. Flagging(x, H, M)
    BY <1>5 DEF Local
  <2>2. PICK k \in Conflicts :
          /\ k \notin DOMAIN M.conflict
          /\ x.tx.conflict = Only(k, new)
          /\ x.tx.claim = FlaggedClaims(M, k, new, {a, b})
    BY <2>1 DEF Flagging, Written
  <2>3. ClaimLocks({a, b}) \subseteq H /\ {a, b} \subseteq DOMAIN M.claim
    BY <2>1 DEF Flagging, VisibleIn
  <2>4. CoversClaims(x.tx, H, M)
    <3>1. \A c \in {a, b} : M.claim[c] \in Case!ClaimRow
      BY <2>3 DEF Typed, Case!RowsTyped
    <3>2. \A c \in {a, b} : /\ ClaimLock(c) \in H
                            /\ x.tx.claim[c] = Recompute(M.claim[c], Put(M.conflict, k, new), c)
      BY <2>2, <2>3 DEF FlaggedClaims, ClaimLocks
    <3>3. DOMAIN x.tx.claim = {a, b}
      BY <2>2 DEF FlaggedClaims
    <3>4. \A c \in {a, b} : x.tx.claim[c].privilege = M.claim[c].privilege
      BY <3>1, <3>2, RecomputeKeeps
    <3> QED
      BY <3>2, <3>3, <3>4 DEF CoversClaims
  <2>5. CoversConflicts(x.tx, H, M)
    <3>1. DOMAIN x.tx.conflict = {k} /\ x.tx.conflict[k] = new
      BY <2>2 DEF Only
    <3>2. ClaimsOf(new) = {a, b}
      BY DEF FlaggedConflict, ClaimsOf
    <3> QED
      BY <2>2, <2>3, <3>1, <3>2 DEF CoversConflicts
  <2> QED
    BY <2>1, <2>4, <2>5, ResetCovered DEF Flagging, Covers, Written
<1>6. CASE x.call.op = "decide"
  <2> DEFINE k == x.call.conflict
             pair == ClaimsOf(M.conflict[k])
  <2>1. Deciding(x, H, M)
    BY <1>6 DEF Local
  <2>2. M.conflict[k] \in Case!ConflictRow /\ pair \subseteq DOMAIN M.claim
    BY <2>1, FlaggedIs DEF Deciding, Typed, Case!RowsTyped, Case!ClaimsOf, ClaimsOf
  <2>3. ClaimsOf(Verdict(x, M)) = pair
    BY <2>2, DecidedKeeps DEF Verdict
  <2>4. /\ x.tx.conflict = Only(k, Verdict(x, M))
        /\ x.tx.claim = [c \in pair |-> VerdictClaims(x, M)[c]]
        /\ ConflictLock(k) \in H /\ ClaimLocks(pair) \subseteq H
    BY <2>1, <2>3 DEF Deciding, Written
  <2>5. CoversClaims(x.tx, H, M)
    <3>1. \A c \in pair : M.claim[c] \in Case!ClaimRow
      BY <2>2 DEF Typed, Case!RowsTyped
    <3>2. \A c \in pair :
            /\ ClaimLock(c) \in H
            /\ x.tx.claim[c] = Recompute(M.claim[c], Put(M.conflict, k, Verdict(x, M)), c)
      <4>1. Put(M.conflict, k, Verdict(x, M))[k] = Verdict(x, M)
        BY DEF Put
      <4>2. VerdictClaims(x, M) =
              [c \in DOMAIN M.claim |->
                 IF c \in pair THEN Recompute(M.claim[c], Put(M.conflict, k, Verdict(x, M)), c)
                               ELSE M.claim[c]]
        BY <2>3, <4>1 DEF VerdictClaims, DecidedClaims, RecomputeClaims
      <4>3. \A c \in pair : ClaimLock(c) \in H
        BY <2>4 DEF ClaimLocks
      <4> QED
        BY <2>2, <2>4, <4>2, <4>3
    <3>3. DOMAIN x.tx.claim = pair
      BY <2>4
    <3>4. \A c \in pair : x.tx.claim[c].privilege = M.claim[c].privilege
      BY <3>1, <3>2, RecomputeKeeps
    <3> QED
      BY <3>2, <3>3, <3>4 DEF CoversClaims
  <2>6. CoversConflicts(x.tx, H, M)
    BY <2>3, <2>4 DEF CoversConflicts, Only
  <2> QED
    BY <2>1, <2>5, <2>6, ResetCovered DEF Deciding, Covers, Written
<1>7. CASE x.call.op = "draft"
  <2>1. Drafting(x, H, M)
    BY <1>7 DEF Local
  <2> QED
    BY <2>1, NoRowsIs DEF Drafting, EvidenceUntouched, Covers, CoversClaims, CoversConflicts,
                          CoversSections, Written, Only
<1>8. CASE x.call.op = "revise"
  <2>1. Revising(x, H, M)
    BY <1>8 DEF Local
  <2> QED
    BY <2>1, NoRowsIs DEF Revising, HoldsSection, EvidenceUntouched, Covers, CoversClaims,
                          CoversConflicts, CoversSections, Written, Only
<1>9. CASE x.call.op = "approve"
  <2> DEFINE s == x.call.section
  <2>1. Approving(x, H, M)
    BY <1>9 DEF Local
  <2>2. M.section[s] \in Case!SectionRow(M.section[s].revision.evidence)
    BY <2>1 DEF Approving, Typed, Case!RowsTyped
  <2>3. CoversSections(x.tx, H, M)
    <3>1. /\ SectionLock(s) \in H /\ s \in DOMAIN M.section
          /\ x.tx.section = Only(s, ApprovedSection(M.claim, M.conflict, M.section[s]))
      BY <2>1 DEF Approving, HoldsSection
    <3>2. /\ DOMAIN x.tx.section = {s}
          /\ x.tx.section[s] = ApprovedSection(M.claim, M.conflict, M.section[s])
      BY <3>1 DEF Only
    <3>3. /\ x.tx.section[s].paragraphRef = M.section[s].paragraphRef
          /\ x.tx.section[s].position = M.section[s].position
      BY <2>2, <3>2, ApprovedKeeps
    <3> QED
      BY <3>1, <3>2, <3>3 DEF CoversSections
  <2> QED
    BY <2>1, <2>3, NoRowsIs DEF Approving, EvidenceUntouched, Covers, CoversClaims, CoversConflicts
<1>10. CASE x.call.op = "packet"
  <2>1. Packing(x, H, M)
    BY <1>10 DEF Local
  <2> QED
    BY <2>1, NoRowsIs DEF Packing, EvidenceUntouched, Covers, CoversClaims, CoversConflicts,
                          CoversSections
<1> QED
  BY <1>1, <1>2, <1>3, <1>4, <1>5, <1>6, <1>7, <1>8, <1>9, <1>10


-----------------------------------------------------------------------------
(***************************************************************************)
(* A commit, as the requests in flight see it: what they rely on is        *)
(* locked.                                                                 *)
(***************************************************************************)

\* The matter goes from M to M2 while a request holds the locks in H.
Preserved(M, M2, H) ==
  /\ M.sources \subseteq M2.sources
  /\ DOMAIN M.claim \subseteq DOMAIN M2.claim
  /\ \A c \in DOMAIN M.claim :
       /\ M2.claim[c].privilege = M.claim[c].privilege
       /\ ClaimLock(c) \in H =>
            M2.claim[c] = M.claim[c] /\ SameConflicts(M.conflict, M2.conflict, c)
  /\ DOMAIN M.conflict \subseteq DOMAIN M2.conflict
  /\ \A k \in DOMAIN M.conflict : ConflictLock(k) \in H => M2.conflict[k] = M.conflict[k]
  /\ DOMAIN M.section \subseteq DOMAIN M2.section
  /\ \A s \in DOMAIN M.section : SectionLock(s) \in H => M2.section[s] = M.section[s]
  /\ CatalogLock \in H =>
       /\ DOMAIN M2.section = DOMAIN M.section
       /\ \A s \in DOMAIN M.section : /\ M2.section[s].paragraphRef = M.section[s].paragraphRef
                                      /\ M2.section[s].position = M.section[s].position
  /\ AuditLock \notin H
  /\ M.events \in Nat /\ M2.events \in Nat /\ M.events < M2.events

\* The rows a request is about to add with changes t have not appeared meanwhile.
Unborn(t, M, M2) ==
  /\ NewIds(M.claim, t.claim) \cap DOMAIN M2.claim = {}
  /\ NewIds(M.conflict, t.conflict) \cap DOMAIN M2.conflict = {}
  /\ NewIds(M.section, t.section) \cap DOMAIN M2.section = {}

\* The labels at which a request does not hold the audit lock.
Unlocked == {"conflict", "claims", "section", "catalog", "write", "replay", "share", "root",
             "build", "release", "audit"}

LEMMA VisibleKept ==
  ASSUME NEW M, NEW M2, NEW H, Preserved(M, M2, H), NEW role, NEW S, VisibleIn(M, role, S)
  PROVE  VisibleIn(M2, role, S)
BY DEF Preserved, VisibleIn

LEMMA RefFreeKept ==
  ASSUME NEW M, NEW M2, NEW H, Preserved(M, M2, H), CatalogLock \in H, NEW ref, NEW s,
         ParagraphRefFree(M.section, ref, s)
  PROVE  ParagraphRefFree(M2.section, ref, s)
BY DEF Preserved, ParagraphRefFree

LEMMA UploadingKept ==
  ASSUME NEW x, NEW H, NEW M, NEW M2, Preserved(M, M2, H), x.at \in Unlocked,
         Uploading(x, H, M)
  PROVE  Uploading(x, H, M2)
BY DEF Uploading, Audited, Written, Late, Unlocked

LEMMA CreatingKept ==
  ASSUME NEW x, NEW H, NEW M, NEW M2, Preserved(M, M2, H), Unborn(x.tx, M, M2),
         x.at \in Unlocked, Creating(x, H, M)
  PROVE  Creating(x, H, M2)
<1>1. x.call.source \in M2.sources
  BY DEF Creating, Preserved
<1>2. ASSUME x.at \in Written
      PROVE  \E c \in Claims :
               /\ c \notin DOMAIN M2.claim
               /\ x.tx.claim = Only(c, ExtractedClaim(x.call.by, Privilege[x.call.source], x.call.quote))
  <2>1. PICK c \in Claims :
          /\ c \notin DOMAIN M.claim
          /\ x.tx.claim = Only(c, ExtractedClaim(x.call.by, Privilege[x.call.source], x.call.quote))
    BY <1>2 DEF Creating
  <2>2. DOMAIN x.tx.claim = {c}
    BY <2>1 DEF Only
  <2>3. c \notin DOMAIN M2.claim
    BY <2>1, <2>2 DEF Unborn, NewIds
  <2> QED
    BY <2>1, <2>3
<1> QED
  BY <1>1, <1>2 DEF Creating, Audited, Written, Late, Unlocked

LEMMA VerifyingKept ==
  ASSUME NEW x, NEW H, NEW M, NEW M2, Preserved(M, M2, H), x.at \in Unlocked,
         Verifying(x, H, M)
  PROVE  Verifying(x, H, M2)
<1> DEFINE c == x.call.claim
<1>1. c \in DOMAIN M.claim /\ c \in DOMAIN M2.claim
  BY DEF Verifying, Preserved
<1>2. ASSUME x.at \in Written
      PROVE  /\ M2.claim[c] = M.claim[c]
             /\ Attested(M.claim[c], x.call.by, M2.conflict, c)
                  = Attested(M.claim[c], x.call.by, M.conflict, c)
  <2>1. ClaimLock(c) \in H
    BY <1>2 DEF Verifying, Written
  <2>2. M2.claim[c] = M.claim[c] /\ SameConflicts(M.conflict, M2.conflict, c)
    BY <1>1, <2>1 DEF Preserved
  <2> QED
    BY <2>2, SameAttested
<1> QED
  BY <1>1, <1>2 DEF Verifying, Audited, Written, Late, Unlocked

LEMMA FlaggingKept ==
  ASSUME NEW x, NEW H, NEW M, NEW M2, Preserved(M, M2, H), Unborn(x.tx, M, M2),
         x.at \in Unlocked, Flagging(x, H, M)
  PROVE  Flagging(x, H, M2)
<1> DEFINE a   == x.call.a
           b   == x.call.b
           new == FlaggedConflict(a, b, x.call.severity)
<1>1. VisibleIn(M2, Role[x.call.by], {a, b})
  BY VisibleKept DEF Flagging
<1>2. ASSUME x.at \in Written
      PROVE  \E k \in Conflicts :
               /\ k \notin DOMAIN M2.conflict
               /\ ~OtherOpenConflict(M2.conflict, a, b, k)
               /\ x.tx.conflict = Only(k, new)
               /\ x.tx.claim = FlaggedClaims(M2, k, new, {a})
  <2>1. PICK k \in Conflicts :
          /\ k \notin DOMAIN M.conflict
          /\ ~OtherOpenConflict(M.conflict, a, b, k)
          /\ x.tx.conflict = Only(k, new)
          /\ x.tx.claim = FlaggedClaims(M, k, new, {a})
    BY <1>2 DEF Flagging, Unlocked
  <2>2. DOMAIN x.tx.conflict = {k}
    BY <2>1 DEF Only
  <2>3. k \notin DOMAIN M2.conflict
    BY <2>1, <2>2 DEF Unborn, NewIds
  <2>4. a \in DOMAIN M.claim /\ ClaimLock(a) \in H
    BY <1>2 DEF Flagging, VisibleIn, ClaimLocks, Written
  <2>5. M2.claim[a] = M.claim[a] /\ SameConflicts(M.conflict, M2.conflict, a)
    BY <2>4 DEF Preserved
  <2>6. ~OtherOpenConflict(M2.conflict, a, b, k)
    BY <2>1, <2>5, SameOpenConflicts
  <2>7. Recompute(M.claim[a], Put(M2.conflict, k, new), a)
          = Recompute(M.claim[a], Put(M.conflict, k, new), a)
    <3>1. SameConflicts(Put(M.conflict, k, new), Put(M2.conflict, k, new), a)
      BY <2>1, <2>3, <2>5, SameWithNew
    <3> QED
      BY <3>1, SameRecompute
  <2>8. FlaggedClaims(M2, k, new, {a}) = FlaggedClaims(M, k, new, {a})
    BY <2>5, <2>7 DEF FlaggedClaims
  <2> QED
    BY <2>1, <2>3, <2>6, <2>8
<1>3. x.at # "commit"
  BY DEF Unlocked
<1> QED
  BY <1>1, <1>2, <1>3 DEF Flagging, Audited, Written, Late, Unlocked

LEMMA DecidingKept ==
  ASSUME NEW x, NEW H, NEW M, NEW M2, Preserved(M, M2, H), x.at \in Unlocked,
         Deciding(x, H, M)
  PROVE  Deciding(x, H, M2)
<1> DEFINE k == x.call.conflict
<1>1. k \in DOMAIN M.conflict /\ k \in DOMAIN M2.conflict
  BY DEF Deciding, Preserved
<1>2. ASSUME x.at # "conflict"
      PROVE  /\ ConflictLock(k) \in H /\ M2.conflict[k] = M.conflict[k]
             /\ VisibleIn(M2, Role[x.call.by], ClaimsOf(M.conflict[k]))
  <2>1. ConflictLock(k) \in H /\ VisibleIn(M, Role[x.call.by], ClaimsOf(M.conflict[k]))
    BY <1>2 DEF Deciding
  <2>2. M2.conflict[k] = M.conflict[k]
    BY <1>1, <2>1 DEF Preserved
  <2> QED
    BY <2>1, <2>2, VisibleKept
<1> QED
  BY <1>1, <1>2 DEF Deciding, Audited, Written, Late, Unlocked

LEMMA DraftingKept ==
  ASSUME NEW x, NEW H, NEW M, NEW M2, Preserved(M, M2, H), Unborn(x.tx, M, M2),
         x.at \in Unlocked, Drafting(x, H, M)
  PROVE  Drafting(x, H, M2)
<1>1. ASSUME x.at \in Written
      PROVE  /\ \E s \in Sections :
                  /\ s \notin DOMAIN M2.section
                  /\ ParagraphRefFree(M2.section, x.call.ref, s)
                  /\ x.tx.section
                       = Only(s, DraftedSection(x.call.ref, NextPosition(M2.section), x.call.cited))
                  /\ x.tx.revision = {[section |-> s, number |-> 1, parent |-> 0, saw |-> 0]}
             /\ VisibleIn(M2, Role[x.call.by], x.call.cited)
  <2>1. PICK s \in Sections :
          /\ s \notin DOMAIN M.section
          /\ ParagraphRefFree(M.section, x.call.ref, s)
          /\ x.tx.section
               = Only(s, DraftedSection(x.call.ref, NextPosition(M.section), x.call.cited))
          /\ x.tx.revision = {[section |-> s, number |-> 1, parent |-> 0, saw |-> 0]}
    BY <1>1 DEF Drafting
  <2>2. CatalogLock \in H /\ VisibleIn(M, Role[x.call.by], x.call.cited)
    BY <1>1 DEF Drafting, Written
  <2>3. /\ DOMAIN M2.section = DOMAIN M.section
        /\ \A t \in DOMAIN M.section : M2.section[t].position = M.section[t].position
    BY <2>2 DEF Preserved
  <2>4. NextPosition(M2.section) = NextPosition(M.section)
    BY <2>3, SamePositions
  <2>5. ParagraphRefFree(M2.section, x.call.ref, s)
    BY <2>1, <2>2, RefFreeKept
  <2>6. VisibleIn(M2, Role[x.call.by], x.call.cited)
    BY <2>2, VisibleKept
  <2> QED
    BY <2>1, <2>3, <2>4, <2>5, <2>6
<1>2. x.at # "commit" /\ OneEvent(x, M2) = (x.tx.log = <<>>) /\ OneEvent(x, M) = (x.tx.log = <<>>)
  BY DEF Unlocked, OneEvent
<1> QED
  BY <1>1, <1>2 DEF Drafting

LEMMA RevisingKept ==
  ASSUME NEW x, NEW H, NEW M, NEW M2, Preserved(M, M2, H), x.at \in Unlocked,
         Revising(x, H, M)
  PROVE  Revising(x, H, M2)
<1> DEFINE s == x.call.section
<1>1. s \in DOMAIN M.section /\ s \in DOMAIN M2.section
  BY DEF Revising, Preserved
<1>2. ASSUME x.at # "section"
      PROVE  M2.section[s] = M.section[s] /\ HoldsSection(x, H, M2)
  <2>1. HoldsSection(x, H, M)
    BY <1>2 DEF Revising
  <2>2. M2.section[s] = M.section[s]
    BY <1>1, <2>1 DEF Preserved, HoldsSection
  <2> QED
    BY <2>1, <2>2 DEF HoldsSection
<1>3. ASSUME x.at \in Written
      PROVE  /\ ParagraphRefFree(M2.section, x.call.ref, s)
             /\ VisibleIn(M2, Role[x.call.by], x.call.cited)
             /\ RevisionAfter(M2, s) = RevisionAfter(M, s)
  <2>1. /\ CatalogLock \in H /\ ParagraphRefFree(M.section, x.call.ref, s)
        /\ VisibleIn(M, Role[x.call.by], x.call.cited)
    BY <1>3 DEF Revising, Written
  <2>2. M2.section[s] = M.section[s]
    BY <1>2, <1>3 DEF Written
  <2> QED
    BY <2>1, <2>2, RefFreeKept, VisibleKept DEF RevisionAfter
<1>4. x.at # "commit" /\ OneEvent(x, M2) = (x.tx.log = <<>>) /\ OneEvent(x, M) = (x.tx.log = <<>>)
  BY DEF Unlocked, OneEvent
<1>5. x.at \in Written => M2.section[s] = M.section[s]
  BY <1>2 DEF Written
<1> QED
  BY <1>1, <1>2, <1>3, <1>4, <1>5 DEF Revising

LEMMA ApprovingKept ==
  ASSUME NEW x, NEW H, NEW M, NEW M2, Preserved(M, M2, H), x.at \in Unlocked,
         Approving(x, H, M)
  PROVE  Approving(x, H, M2)
<1> DEFINE s == x.call.section
<1>1. s \in DOMAIN M.section /\ s \in DOMAIN M2.section
  BY DEF Approving, Preserved
<1>2. ASSUME x.at # "section"
      PROVE  HoldsSection(x, H, M2)
  <2>1. HoldsSection(x, H, M)
    BY <1>2 DEF Approving
  <2>2. M2.section[s] = M.section[s]
    BY <1>1, <2>1 DEF Preserved, HoldsSection
  <2> QED
    BY <2>1, <2>2 DEF HoldsSection
<1> QED
  BY <1>1, <1>2 DEF Approving, Unlocked

LEMMA PackingKept ==
  ASSUME NEW x, NEW H, NEW M, NEW M2, Preserved(M, M2, H), x.at \in Unlocked,
         Packing(x, H, M)
  PROVE  Packing(x, H, M2)
<1>1. x.at # "commit" /\ OneEvent(x, M2) = (x.tx.log = <<>>) /\ OneEvent(x, M) = (x.tx.log = <<>>)
  BY DEF Unlocked, OneEvent
<1>2. x.tx.root \in 0 .. M.events => x.tx.root \in 0 .. M2.events /\ x.tx.root # M2.events
  BY DEF Preserved
<1>3. ASSUME x.tx.root \in 0 .. M.events, Rendered(x, M)
      PROVE  Rendered(x, M2)
  <2>1. PICK entries :
          x.tx.packet = <<[type |-> x.call.type, key |-> x.call.key, root |-> x.tx.root,
                           entries |-> entries]>>
    BY <1>3 DEF Rendered
  <2> QED
    BY <1>2, <1>3, <2>1 DEF Rendered
<1> QED
  BY <1>1, <1>2, <1>3 DEF Packing, Unlocked

LEMMA OthersKept ==
  ASSUME NEW x, NEW H, NEW M, NEW M2, Local(x, H, M), x.at \notin {"idle", "done"},
         Preserved(M, M2, H), Unborn(x.tx, M, M2)
  PROVE  Local(x, H, M2)
<1>1. x.call \in CallRecords
  BY DEF Local
<1>2. x.call.op \in {"create", "upload", "flag", "decide", "verify", "draft", "revise",
                     "approve", "packet"}
  BY <1>1, CallFields
<1>3. x.at \in Unlocked
  BY <1>2 DEF Local, Preserved, Uploading, Creating, Verifying, Flagging, Deciding, Drafting,
              Revising, Approving, Packing, Written, Unlocked
<1>4. x.call.op = "upload" => Uploading(x, H, M2)
  BY <1>3, UploadingKept DEF Local
<1>5. x.call.op = "create" => Creating(x, H, M2)
  BY <1>3, CreatingKept DEF Local
<1>6. x.call.op = "verify" => Verifying(x, H, M2)
  BY <1>3, VerifyingKept DEF Local
<1>7. x.call.op = "flag" => Flagging(x, H, M2)
  BY <1>3, FlaggingKept DEF Local
<1>8. x.call.op = "decide" => Deciding(x, H, M2)
  BY <1>3, DecidingKept DEF Local
<1>9. x.call.op = "draft" => Drafting(x, H, M2)
  BY <1>3, DraftingKept DEF Local
<1>10. x.call.op = "revise" => Revising(x, H, M2)
  BY <1>3, RevisingKept DEF Local
<1>11. x.call.op = "approve" => Approving(x, H, M2)
  BY <1>3, ApprovingKept DEF Local
<1>12. x.call.op = "packet" => Packing(x, H, M2)
  BY <1>3, PackingKept DEF Local
<1> QED
  BY <1>1, <1>4, <1>5, <1>6, <1>7, <1>8, <1>9, <1>10, <1>11, <1>12 DEF Local

LEMMA LockedClaimKept ==
  ASSUME NEW t, NEW M, NEW M2, NEW H, NEW K, Covers(t, K, M), H \cap K = {},
         M2.claim = Overlay(M.claim, t.claim), M2.conflict = Overlay(M.conflict, t.conflict),
         NEW c \in DOMAIN M.claim, ClaimLock(c) \in H
  PROVE  M2.claim[c] = M.claim[c] /\ SameConflicts(M.conflict, M2.conflict, c)
<1>1. M2.claim[c] = M.claim[c]
  BY DEF Covers, CoversClaims, Overlay
<1>2. \A k \in DOMAIN t.conflict : c \notin ClaimsOf(t.conflict[k])
  BY DEF Covers, CoversConflicts, ClaimLocks
<1>3. \A k \in DOMAIN t.conflict \cap DOMAIN M.conflict : c \notin ClaimsOf(M.conflict[k])
  BY <1>2 DEF Covers, CoversConflicts
<1>4. DOMAIN M2.conflict = DOMAIN M.conflict \cup DOMAIN t.conflict
  BY DEF Overlay
<1>5. /\ \A k \in DOMAIN t.conflict : M2.conflict[k] = t.conflict[k]
      /\ \A k \in DOMAIN M.conflict \ DOMAIN t.conflict : M2.conflict[k] = M.conflict[k]
  BY DEF Overlay
<1>6. RelatedConflicts(M2.conflict, c) = RelatedConflicts(M.conflict, c)
  BY <1>2, <1>3, <1>4, <1>5 DEF RelatedConflicts
<1>7. \A k \in RelatedConflicts(M.conflict, c) : M2.conflict[k] = M.conflict[k]
  BY <1>3, <1>5 DEF RelatedConflicts
<1> QED
  BY <1>1, <1>6, <1>7 DEF SameConflicts

\* Changes that cover what they touch leave alone what others have locked.
LEMMA CommitPreserves ==
  ASSUME NEW t, NEW M, NEW M2, NEW H, NEW K, Covers(t, K, M), H \cap K = {}, AuditLock \in K,
         M.sources \subseteq M2.sources,
         M2.claim = Overlay(M.claim, t.claim), M2.conflict = Overlay(M.conflict, t.conflict),
         M2.section = Overlay(M.section, t.section),
         M.events \in Nat, M2.events \in Nat, M.events < M2.events
  PROVE  Preserved(M, M2, H)
<1>1. /\ DOMAIN M.claim \subseteq DOMAIN M2.claim
      /\ DOMAIN M.conflict \subseteq DOMAIN M2.conflict
      /\ DOMAIN M.section \subseteq DOMAIN M2.section
  BY DEF Overlay
<1>2. \A c \in DOMAIN M.claim : M2.claim[c].privilege = M.claim[c].privilege
  BY DEF Covers, CoversClaims, Overlay
<1>3. \A c \in DOMAIN M.claim : ClaimLock(c) \in H =>
        M2.claim[c] = M.claim[c] /\ SameConflicts(M.conflict, M2.conflict, c)
  BY LockedClaimKept
<1>4. \A k \in DOMAIN M.conflict : ConflictLock(k) \in H => M2.conflict[k] = M.conflict[k]
  BY DEF Covers, CoversConflicts, Overlay
<1>5. \A s \in DOMAIN M.section : SectionLock(s) \in H => M2.section[s] = M.section[s]
  BY DEF Covers, CoversSections, Overlay
<1>6. CatalogLock \in H =>
        /\ DOMAIN M2.section = DOMAIN M.section
        /\ \A s \in DOMAIN M.section : /\ M2.section[s].paragraphRef = M.section[s].paragraphRef
                                       /\ M2.section[s].position = M.section[s].position
  BY DEF Covers, CoversSections, Overlay
<1> QED
  BY <1>1, <1>2, <1>3, <1>4, <1>5, <1>6 DEF Preserved

LEMMA CommitBears ==
  ASSUME NEW t, NEW u, NEW M, NEW M2,
         NewIds(M.claim, t.claim) \cap NewIds(M.claim, u.claim) = {},
         NewIds(M.conflict, t.conflict) \cap NewIds(M.conflict, u.conflict) = {},
         NewIds(M.section, t.section) \cap NewIds(M.section, u.section) = {},
         M2.claim = Overlay(M.claim, t.claim), M2.conflict = Overlay(M.conflict, t.conflict),
         M2.section = Overlay(M.section, t.section)
  PROVE  Unborn(u, M, M2)
BY DEF Unborn, NewIds, Overlay

-----------------------------------------------------------------------------
(***************************************************************************)
(* Moves keep the invariant.                                               *)
(***************************************************************************)

\* The rows r is about to add with changes t are not those of anybody else.
AddsApart(r, t) ==
  \A q \in Requests \ {r} :
    /\ NewIds(claim, t.claim) \cap NewIds(claim, Tx(q).claim) = {}
    /\ NewIds(conflict, t.conflict) \cap NewIds(conflict, Tx(q).conflict) = {}
    /\ NewIds(section, t.section) \cap NewIds(section, Tx(q).section) = {}

\* A source that is not there and that nobody else uploads.
UploadsNew(r, source) ==
  /\ source \notin sources
  /\ \A q \in Requests \ {r} : Call(q).op = "upload" => Call(q).source # source

\* What r becomes fits in with the others.
FitsIn(r, y, H) ==
  /\ IsRequest(y) /\ y.at # "idle"
  /\ Local(y, H, Rows)
  /\ \A q \in Requests \ {r} : H \cap held[q] = {}
  /\ AddsApart(r, y.tx)
  /\ At(r, "done") => y.at = "done"
  /\ y.call = Call(r) \/ (y.call.op = "upload" => UploadsNew(r, y.call.source))

LEMMA EndedGrows ==
  ASSUME NEW A, NEW B, B \subseteq Requests, A \subseteq B
  PROVE  /\ IsFiniteSet(A) /\ IsFiniteSet(B)
         /\ Cardinality(A) \in Nat /\ Cardinality(B) \in Nat
         /\ Cardinality(A) <= Cardinality(B)
         /\ A # B => Cardinality(A) < Cardinality(B)
<1>1. IsFiniteSet(Requests)
  BY RequestsAssumption
<1>2. IsFiniteSet(A) /\ IsFiniteSet(B)
  BY <1>1, FS_Subset
<1> QED
  BY <1>2, FS_Subset, FS_CardinalityType

LEMMA MoveKeeps ==
  ASSUME Ordered, NEW r \in Requests, NEW y, NEW H, FitsIn(r, y, H), Moves(r, y, H)
  PROVE  Ordered'
<1>1. UNCHANGED <<sources, claim, conflict, section, packets, log, decisions, revisions>>
  BY DEF Moves, matter, chains
<1>2. \A q \in Requests : /\ req'[q] = (IF q = r THEN y ELSE req[q])
                          /\ held'[q] = (IF q = r THEN H ELSE held[q])
  BY DEF Moves
<1>3. Shaped'
  <2>1. req' = [q \in Requests |-> req'[q]] /\ held' = [q \in Requests |-> held'[q]]
    BY DEF Moves
  <2>2. \A q \in Requests : IsRequest(req'[q]) /\ (req'[q].at = "idle" => req'[q] = Idle)
    BY <1>2 DEF Ordered, Shaped, FitsIn
  <2> QED
    BY <2>1, <2>2 DEF Shaped
<1>4. Orderly'
  <2>1. Rows' = Rows
    BY RowsStay DEF Moves
  <2>2. ASSUME NEW q \in Requests
        PROVE  Local(req'[q], held'[q], Rows')
    <3>1. CASE q = r
      BY <1>2, <2>1, <3>1 DEF FitsIn
    <3>2. CASE q # r
      BY <1>2, <2>1, <3>2 DEF Ordered, Orderly
    <3> QED
      BY <3>1, <3>2
  <2> QED
    BY <2>2 DEF Orderly
<1>5. LocksExclusive'
  <2>1. \A p, q \in Requests : p # q => held'[p] \cap held'[q] = {}
    BY <1>2 DEF Ordered, LocksExclusive, FitsIn
  <2> QED
    BY <2>1 DEF LocksExclusive
<1>6. NewIdsApart'
  <2>1. \A q \in Requests : req'[q].tx = IF q = r THEN y.tx ELSE req[q].tx
    BY <1>2
  <2>2. ASSUME NEW p \in Requests, NEW q \in Requests, p # q
        PROVE  /\ NewIds(claim, req'[p].tx.claim) \cap NewIds(claim, req'[q].tx.claim) = {}
               /\ NewIds(conflict, req'[p].tx.conflict) \cap NewIds(conflict, req'[q].tx.conflict) = {}
               /\ NewIds(section, req'[p].tx.section) \cap NewIds(section, req'[q].tx.section) = {}
    <3>1. CASE p = r
      BY <2>1, <2>2, <3>1 DEF FitsIn, AddsApart, Tx
    <3>2. CASE q = r
      <4>1. AddsApart(r, y.tx)
        BY DEF FitsIn
      <4>2. /\ NewIds(claim, y.tx.claim) \cap NewIds(claim, req[p].tx.claim) = {}
            /\ NewIds(conflict, y.tx.conflict) \cap NewIds(conflict, req[p].tx.conflict) = {}
            /\ NewIds(section, y.tx.section) \cap NewIds(section, req[p].tx.section) = {}
        BY <2>2, <3>2, <4>1 DEF AddsApart, Tx
      <4> QED
        BY <2>1, <2>2, <3>2, <4>2
    <3>3. CASE p # r /\ q # r
      BY <2>1, <2>2, <3>3 DEF Ordered, NewIdsApart, Tx
    <3> QED
      BY <3>1, <3>2, <3>3
  <2> QED
    BY <1>1, <2>2 DEF NewIdsApart, Tx
<1>7. UploadsApart'
  <2>1. \A q \in Requests : /\ req'[q].call = IF q = r THEN y.call ELSE req[q].call
                            /\ req'[q].at = IF q = r THEN y.at ELSE req[q].at
    BY <1>2
  <2>2. \A q \in Requests : req'[q].call.op = "upload" /\ req'[q].at # "done" =>
                              req'[q].call.source \notin sources
    BY <2>1 DEF Ordered, UploadsApart, FitsIn, UploadsNew, Call, At
  <2>3. ASSUME NEW p \in Requests, NEW q \in Requests, p # q,
               req'[p].call.op = "upload", req'[q].call.op = "upload",
               req'[p].call.source = req'[q].call.source
        PROVE  FALSE
    <3>1. ASSUME NEW u \in Requests, u # r, y.call.op = "upload", req[u].call.op = "upload"
          PROVE  y.call.source # req[u].call.source
      <4>1. CASE y.call = req[r].call
        BY <3>1, <4>1 DEF Ordered, UploadsApart, Call
      <4>2. CASE UploadsNew(r, y.call.source)
        BY <3>1, <4>2 DEF UploadsNew, Call
      <4> QED
        BY <3>1, <4>1, <4>2 DEF FitsIn, Call
    <3>2. ASSUME NEW u \in Requests, NEW v \in Requests, u # r, v # r,
                 req[u].call.op = "upload", req[v].call.op = "upload",
                 req[u].call.source = req[v].call.source
          PROVE  u = v
      BY <3>2 DEF Ordered, UploadsApart, Call
    <3>3. CASE p = r
      BY <2>1, <2>3, <3>1, <3>3
    <3>4. CASE q = r
      <4>1. y.call.source = req[p].call.source /\ y.call.op = "upload" /\ req[p].call.op = "upload"
        BY <2>1, <2>3, <3>4
      <4> QED
        BY <2>3, <3>1, <3>4, <4>1
    <3>5. CASE p # r /\ q # r
      BY <2>1, <2>3, <3>2, <3>5
    <3> QED
      BY <3>3, <3>4, <3>5
  <2> QED
    BY <1>1, <2>2, <2>3 DEF UploadsApart, Call, At
<1>8. Chained' /\ Descended' /\ Tables'
  BY <1>1 DEF Ordered, Chained, Descended, Tables
<1>9. Counted'
  <2>1. Ended \subseteq Ended' /\ Ended' \subseteq Requests
    BY <1>2 DEF Ended, At, FitsIn, Local
  <2>2. PICK A, B : A = Ended /\ B = Ended'
    OBVIOUS
  <2>3. Cardinality(A) <= Cardinality(B) /\ Cardinality(A) \in Nat /\ Cardinality(B) \in Nat
    BY <2>1, <2>2, EndedGrows
  <2>4. /\ Len(log) \in 0 .. 3 * Cardinality(A) /\ Len(packets) \in 0 .. Cardinality(A)
        /\ log' = log /\ packets' = packets
    BY <1>1, <2>2 DEF Ordered, Counted
  <2>5. Len(log) \in 0 .. 3 * Cardinality(B) /\ Len(packets) \in 0 .. Cardinality(B)
    BY <2>3, <2>4
  <2> QED
    BY <2>2, <2>4, <2>5 DEF Counted
<1> QED
  BY <1>3, <1>4, <1>5, <1>6, <1>7, <1>8, <1>9 DEF Ordered

LEMMA OwnAddsApart ==
  ASSUME Ordered, NEW r \in Requests, NEW t,
         NewIds(claim, t.claim) \subseteq NewIds(claim, Tx(r).claim),
         NewIds(conflict, t.conflict) \subseteq NewIds(conflict, Tx(r).conflict),
         NewIds(section, t.section) \subseteq NewIds(section, Tx(r).section)
  PROVE  AddsApart(r, t)
BY DEF Ordered, NewIdsApart, AddsApart

LEMMA TakeApart ==
  ASSUME Ordered, NEW r \in Requests, NEW lock, Take(r, lock)
  PROVE  /\ held' = [held EXCEPT ![r] = held[r] \cup {lock}]
         /\ \A q \in Requests \ {r} : (held[r] \cup {lock}) \cap held[q] = {}
<1>1. Shaped /\ LocksExclusive
  BY DEF Ordered
<1>2. /\ held' = [held EXCEPT ![r] = held[r] \cup {lock}]
      /\ \A q \in Requests : q # r => lock \notin held[q]
  BY <1>1, TakeIs
<1> QED
  BY <1>1, <1>2 DEF LocksExclusive

LEMMA AbortKeeps ==
  ASSUME Ordered, NEW r \in Requests, NEW reply, Abort(r, reply)
  PROVE  Ordered' /\ UNCHANGED <<matter, chains>>
<1> DEFINE y == OverWith(req[r], reply)
<1>1. Moves(r, y, {})
  BY AbortMoves DEF Ordered
<1>2. IsOver(req[r], y)
  BY OverIs
<1>3. IsRequest(y) /\ y.at = "done" /\ y.call = Call(r) /\ y.tx = NoChanges
  BY <1>2 DEF IsOver, Call
<1>4. Local(y, {}, Rows)
  BY <1>2, OverLocal
<1> HIDE DEF y
<1>5. AddsApart(r, y.tx)
  BY <1>3, NoChangesIs, NoRowsIs DEF AddsApart, NewIds
<1>6. FitsIn(r, y, {})
  BY <1>3, <1>4, <1>5 DEF FitsIn
<1> QED
  BY <1>1, <1>6, MoveKeeps DEF Moves

\* A step of request r to label l with locks H, and with its changes as they are.
LEMMA GotoKeeps ==
  ASSUME Ordered, NEW r \in Requests, NEW l, Goto(r, l), UNCHANGED <<matter, chains>>,
         l \notin {"idle", "done"}, req[r].at # "done",
         NEW H, held' = [held EXCEPT ![r] = H],
         \A q \in Requests \ {r} : H \cap held[q] = {},
         \A y : Becomes(req[r], y, l, req[r].tx) => Local(y, H, Rows)
  PROVE  Ordered' /\ UNCHANGED <<matter, chains>>
<1> DEFINE y == [req[r] EXCEPT !.at = l]
<1>1. Moves(r, y, H)
  BY GotoMoves DEF Ordered
<1>2. Becomes(req[r], y, l, req[r].tx)
  BY RequestAt DEF Ordered, Shaped
<1> HIDE DEF y
<1>3. IsRequest(y) /\ y.at = l /\ y.call = Call(r) /\ y.tx = Tx(r)
  BY <1>2 DEF Becomes, Call, Tx
<1>4. AddsApart(r, y.tx)
  BY <1>3, OwnAddsApart
<1>5. FitsIn(r, y, H)
  BY <1>2, <1>3, <1>4 DEF FitsIn, At
<1> QED
  BY <1>1, <1>5, MoveKeeps

\* A step of request r to label l with changes t, and with its locks as they are.
LEMMA ChangeKeeps ==
  ASSUME Ordered, NEW r \in Requests, NEW l, NEW t, Change(r, t, l),
         UNCHANGED <<matter, chains, held>>,
         l \notin {"idle", "done"}, req[r].at # "done", IsChanges(t), AddsApart(r, t),
         \A y : Becomes(req[r], y, l, t) => Local(y, held[r], Rows)
  PROVE  Ordered' /\ UNCHANGED <<matter, chains>>
<1> DEFINE y == [req[r] EXCEPT !.at = l, !.tx = t]
<1>1. Moves(r, y, held[r])
  BY ChangeMoves DEF Ordered
<1>2. Becomes(req[r], y, l, t)
  BY RequestChanged DEF Ordered, Shaped
<1> HIDE DEF y
<1>3. IsRequest(y) /\ y.at = l /\ y.call = Call(r) /\ y.tx = t
  BY <1>2 DEF Becomes, Call
<1>4. \A q \in Requests \ {r} : held[r] \cap held[q] = {}
  BY DEF Ordered, LocksExclusive
<1>5. FitsIn(r, y, held[r])
  BY <1>2, <1>3, <1>4 DEF FitsIn, At
<1> QED
  BY <1>1, <1>5, MoveKeeps

-----------------------------------------------------------------------------
(***************************************************************************)
(* One action after the other.                                             *)
(***************************************************************************)

LEMMA OrderlyRequest ==
  ASSUME Ordered, NEW r \in Requests
  PROVE  /\ IsRequest(req[r]) /\ IsChanges(req[r].tx)
         /\ Local(req[r], held[r], Rows)
         /\ req[r].at = "idle" => req[r] = Idle
         /\ Len(log) \in Nat
BY DEF Ordered, Shaped, Orderly, IsRequest, Chained

LEMMA VisibleIs ==
  ASSUME NEW call, NEW S
  PROVE  Visible(call, S) <=> VisibleIn(Rows, Role[call.by], S)
BY RowsAre DEF Visible, VisibleIn, RoleOf

LEMMA ArriveKeeps ==
  ASSUME Ordered, NEW r \in Requests, NEW call \in Calls, Arrive(r, call)
  PROVE  Ordered' /\ UNCHANGED <<matter, chains>>
<1>0. call \in CallRecords
  BY RequestsAssumption
<1>1. PICK v : req' = [req EXCEPT ![r].at = FirstStep(call.op), ![r].call = call, ![r].expected = v]
  BY DEF Arrive
<1> DEFINE y == [req[r] EXCEPT !.at = FirstStep(call.op), !.call = call, !.expected = v]
<1>2. req[r] = Idle /\ Idle.tx = NoChanges /\ IsRequest(Idle)
  BY OrderlyRequest, IdleIs DEF Arrive, At
<1>3. IsRequest(y) /\ y.at = FirstStep(call.op) /\ y.call = call /\ y.tx = NoChanges
  BY <1>2 DEF IsRequest, HasFields
<1>4. Moves(r, y, {})
  <2>1. held[r] = {}
    BY OrderlyRequest DEF Arrive, At, Local
  <2> QED
    BY <1>1, <2>1 DEF Moves, Arrive, Ordered, Shaped, locks
<1> HIDE DEF y
<1>5. Local(y, {}, Rows)
  BY <1>0, <1>3, ArriveLocal DEF Arrive
<1>6. y.at \notin {"idle", "done"}
  BY <1>0, <1>3, CallFields DEF FirstStep
<1>7. AddsApart(r, y.tx)
  BY <1>3, NoChangesIs, NoRowsIs DEF AddsApart, NewIds
<1>8. call.op = "upload" => UploadsNew(r, call.source)
  BY DEF Arrive, Submittable, UploadsNew
<1>9. ~At(r, "done")
  BY DEF Arrive, At
<1>10. FitsIn(r, y, {})
  BY <1>3, <1>5, <1>6, <1>7, <1>8, <1>9 DEF FitsIn
<1> QED
  BY <1>4, <1>10, MoveKeeps DEF Moves

LEMMA LockConflictKeeps ==
  ASSUME Ordered, NEW r \in Requests, LockConflict(r)
  PROVE  Ordered' /\ UNCHANGED <<matter, chains>>
<1> DEFINE call == Call(r)
           k    == call.conflict
           row  == conflict[k]
<1>1. CASE Abort(r, "stale") \/ Abort(r, "refused")
  BY <1>1, AbortKeeps
<1>2. CASE /\ row.version = req[r].expected
           /\ DecisionPermitted(call.decision, RoleOf(call), row.severity)
           /\ Visible(call, ClaimsOf(row))
           /\ Take(r, ConflictLock(k)) /\ Goto(r, "claims")
           /\ UNCHANGED <<matter, chains, reading>>
  <2>1. VisibleIn(Rows, Role[call.by], ClaimsOf(row))
    BY <1>2, VisibleIs
  <2>2. req[r].at = "conflict"
    BY DEF LockConflict, At
  <2>3. ASSUME NEW y, Becomes(req[r], y, "claims", req[r].tx)
        PROVE  Local(y, held[r] \cup {ConflictLock(k)}, Rows)
    BY <1>2, <2>1, <2>2, <2>3, OrderlyRequest, RowsAre, LockConflictLocal DEF Call, RoleOf
  <2>4. UNCHANGED <<matter, chains>>
    BY <1>2
  <2> QED
    BY <1>2, <2>2, <2>3, <2>4, TakeApart, GotoKeeps
<1> QED
  BY <1>1, <1>2 DEF LockConflict

LEMMA LockNextClaimKeeps ==
  ASSUME Ordered, NEW r \in Requests, LockNextClaim(r)
  PROVE  Ordered' /\ UNCHANGED <<matter, chains>>
<1>1. PICK c : c = Min(UnlockedClaims(r))
  OBVIOUS
<1>2. PICK l : l = IF UnlockedClaims(r) # {c} THEN "claims"
                   ELSE IF Call(r).op = "decide" THEN "audit" ELSE "write"
  OBVIOUS
<1>3. Take(r, ClaimLock(c)) /\ Goto(r, l) /\ req[r].at = "claims" /\ UNCHANGED <<matter, chains>>
  BY <1>1, <1>2 DEF LockNextClaim, At
<1> DEFINE H == held[r] \cup {ClaimLock(c)}
<1>4. PairOf(req[r], Rows) = ClaimsToLock(r)
  BY RowsAre DEF PairOf, ClaimsToLock, Call
<1>5. \/ l = "claims"
      \/ /\ l = IF req[r].call.op = "decide" THEN "audit" ELSE "write"
         /\ ClaimLocks(PairOf(req[r], Rows)) \subseteq H
  BY <1>2, <1>4 DEF UnlockedClaims, ClaimLocks, Call
<1>6. ASSUME NEW y, Becomes(req[r], y, l, req[r].tx)
      PROVE  Local(y, H, Rows)
  BY <1>3, <1>5, <1>6, OrderlyRequest, LockClaimLocal
<1>7. l \notin {"idle", "done"}
  BY <1>2
<1> QED
  BY <1>3, <1>6, <1>7, TakeApart, GotoKeeps

LEMMA LockSectionKeeps ==
  ASSUME Ordered, NEW r \in Requests, LockSection(r)
  PROVE  Ordered' /\ UNCHANGED <<matter, chains>>
<1> DEFINE call == Call(r)
           s    == call.section
           l    == IF call.op = "approve" THEN "audit" ELSE "catalog"
<1>1. CASE Abort(r, "stale") \/ Abort(r, "refused")
  BY <1>1, AbortKeeps
<1>2. CASE /\ ~(call.op = "approve" /\ ~PacketPermitted(RoleOf(call)))
           /\ section[s].version = req[r].expected
           /\ Take(r, SectionLock(s)) /\ Goto(r, l)
           /\ UNCHANGED <<matter, chains, reading>>
  <2>1. req[r].at = "section"
    BY DEF LockSection, At
  <2>2. ASSUME NEW y, Becomes(req[r], y, l, req[r].tx)
        PROVE  Local(y, held[r] \cup {SectionLock(s)}, Rows)
    BY <1>2, <2>1, <2>2, OrderlyRequest, RowsAre, LockSectionLocal DEF Call, RoleOf
  <2>3. UNCHANGED <<matter, chains>>
    BY <1>2
  <2>4. l \notin {"idle", "done"}
    OBVIOUS
  <2> HIDE DEF l
  <2> QED
    BY <1>2, <2>1, <2>2, <2>3, <2>4, TakeApart, GotoKeeps
<1> QED
  BY <1>1, <1>2 DEF LockSection

LEMMA LockCatalogKeeps ==
  ASSUME Ordered, NEW r \in Requests, LockCatalog(r)
  PROVE  Ordered' /\ UNCHANGED <<matter, chains>>
<1>1. /\ req[r].at = "catalog" /\ Take(r, CatalogLock) /\ Goto(r, "write")
      /\ UNCHANGED <<matter, chains>>
  BY DEF LockCatalog, At
<1>2. ASSUME NEW y, Becomes(req[r], y, "write", req[r].tx)
      PROVE  Local(y, held[r] \cup {CatalogLock}, Rows)
  BY <1>1, <1>2, OrderlyRequest, LockCatalogLocal
<1> QED
  BY <1>1, <1>2, TakeApart, GotoKeeps

LEMMA LockAuditKeeps ==
  ASSUME Ordered, NEW r \in Requests, LockAudit(r)
  PROVE  Ordered' /\ UNCHANGED <<matter, chains>>
<1>1. PICK l : l = IF Call(r).op \in EvidenceOps THEN "reset" ELSE "append"
  OBVIOUS
<1>2. req[r].at = "audit" /\ Take(r, AuditLock) /\ Goto(r, l) /\ UNCHANGED <<matter, chains>>
  BY <1>1 DEF LockAudit, At
<1>3. ASSUME NEW y, Becomes(req[r], y, l, req[r].tx)
      PROVE  Local(y, held[r] \cup {AuditLock}, Rows)
  BY <1>1, <1>2, <1>3, OrderlyRequest, LockAuditLocal DEF Call
<1>4. l \notin {"idle", "done"}
  BY <1>1
<1>5. /\ held' = [held EXCEPT ![r] = held[r] \cup {AuditLock}]
      /\ \A q \in Requests \ {r} : (held[r] \cup {AuditLock}) \cap held[q] = {}
  BY <1>2, TakeApart
<1> QED
  BY <1>2, <1>3, <1>4, <1>5, GotoKeeps

LEMMA FreshIs ==
  /\ \A c \in FreshClaims : /\ c \in Claims /\ c \notin DOMAIN claim
                            /\ \A q \in Requests : c \notin DOMAIN Tx(q).claim
  /\ \A k \in FreshConflicts : /\ k \in Conflicts /\ k \notin DOMAIN conflict
                               /\ \A q \in Requests : k \notin DOMAIN Tx(q).conflict
  /\ \A s \in FreshSections : /\ s \in Sections /\ s \notin DOMAIN section
                              /\ \A q \in Requests : s \notin DOMAIN Tx(q).section
BY DEF FreshClaims, FreshConflicts, FreshSections, Fresh

\* A request about to write has written nothing yet.
LEMMA AboutToWrite ==
  ASSUME Ordered, NEW r \in Requests, At(r, "write")
  PROVE  Tx(r) = NoChanges /\ req[r].at \notin {"idle", "done"}
BY OrderlyRequest DEF At, Tx, Local, Unwritten

LEMMA WriteSourceKeeps ==
  ASSUME Ordered, NEW r \in Requests, WriteSource(r)
  PROVE  Ordered' /\ UNCHANGED <<matter, chains>>
<1>1. PICK t : t = [Tx(r) EXCEPT !.sources = {Call(r).source}]
  OBVIOUS
<1>2. /\ At(r, "write") /\ Call(r).op = "upload" /\ Change(r, t, "audit")
      /\ UNCHANGED <<matter, chains, held>>
  BY <1>1 DEF WriteSource, locks
<1>3. Tx(r) = NoChanges /\ req[r].at # "done"
  BY <1>2, AboutToWrite
<1>4. IsChanges(t) /\ t.claim = NoRows /\ t.conflict = NoRows /\ t.section = NoRows
  BY <1>1, <1>3, NoChangesIs DEF IsChanges, HasFields
<1>5. AddsApart(r, t)
  BY <1>4, NoRowsIs DEF AddsApart, NewIds
<1>6. ASSUME NEW y, Becomes(req[r], y, "audit", t)
      PROVE  Local(y, held[r], Rows)
  BY <1>1, <1>2, <1>6, OrderlyRequest, WriteSourceLocal DEF At, Call, Tx
<1> QED
  BY <1>2, <1>3, <1>4, <1>5, <1>6, ChangeKeeps

LEMMA WriteClaimKeeps ==
  ASSUME Ordered, NEW r \in Requests, WriteClaim(r)
  PROVE  Ordered' /\ UNCHANGED <<matter, chains>>
<1>1. PICK c : c = NewId(FreshClaims)
  OBVIOUS
<1>2. PICK t : t = [Tx(r) EXCEPT !.claim =
                      Only(c, ExtractedClaim(Call(r).by, Privilege[Call(r).source], Call(r).quote))]
  OBVIOUS
<1>3. /\ At(r, "write") /\ Call(r).op = "create" /\ FreshClaims # {} /\ Change(r, t, "audit")
      /\ UNCHANGED <<matter, chains, held>>
  BY <1>1, <1>2 DEF WriteClaim, locks
<1>4. /\ c \in Claims /\ c \notin DOMAIN claim
      /\ \A q \in Requests : c \notin DOMAIN Tx(q).claim
  BY <1>1, <1>3, NewIdIn, FreshIs
<1>5. Tx(r) = NoChanges /\ req[r].at # "done"
  BY <1>3, AboutToWrite
<1>6. IsChanges(t) /\ DOMAIN t.claim = {c} /\ t.conflict = NoRows /\ t.section = NoRows
  BY <1>2, <1>5, NoChangesIs DEF IsChanges, HasFields, Only
<1>7. AddsApart(r, t)
  BY <1>4, <1>6, NoRowsIs DEF AddsApart, NewIds
<1>8. ASSUME NEW y, Becomes(req[r], y, "audit", t)
      PROVE  Local(y, held[r], Rows)
  BY <1>2, <1>3, <1>4, <1>8, OrderlyRequest, RowsAre, WriteClaimLocal DEF At, Call, Tx
<1> QED
  BY <1>3, <1>5, <1>6, <1>7, <1>8, ChangeKeeps

LEMMA WriteConflictKeeps ==
  ASSUME Ordered, NEW r \in Requests, WriteConflict(r)
  PROVE  Ordered' /\ UNCHANGED <<matter, chains>>
<1> DEFINE call == Call(r)
<1>1. PICK k : k = NewId(FreshConflicts)
  OBVIOUS
<1>2. PICK new : new = FlaggedConflict(call.a, call.b, call.severity)
  OBVIOUS
<1>3. PICK t : t = [Tx(r) EXCEPT
                      !.conflict = Only(k, new),
                      !.claim    = Only(call.a, Recompute(claim[call.a],
                                                          Overlay(conflict, Only(k, new)), call.a))]
  OBVIOUS
<1>4. At(r, "write") /\ call.op = "flag" /\ FreshConflicts # {}
  BY DEF WriteConflict
<1>5. CASE Abort(r, "duplicate")
  BY <1>5, AbortKeeps
<1>6. CASE /\ ~OtherOpenConflict(conflict, call.a, call.b, k)
           /\ Change(r, t, "audit")
           /\ UNCHANGED <<matter, chains, held>>
  <2>1. /\ k \in Conflicts /\ k \notin DOMAIN conflict
        /\ \A q \in Requests : k \notin DOMAIN Tx(q).conflict
    BY <1>1, <1>4, NewIdIn, FreshIs
  <2>2. Tx(r) = NoChanges /\ req[r].at \notin {"idle", "done"}
    BY <1>4, AboutToWrite
  <2>3. /\ IsChanges(t) /\ DOMAIN t.conflict = {k} /\ DOMAIN t.claim = {call.a}
        /\ t.section = NoRows
    BY <1>3, <2>2, NoChangesIs DEF IsChanges, HasFields, Only
  <2>4. call.a \in DOMAIN claim
    <3>1. Flagging(req[r], held[r], Rows)
      BY <1>4, <2>2, OrderlyRequest DEF Local, Call
    <3> QED
      BY <3>1, RowsAre DEF Flagging, VisibleIn, Call
  <2>5. AddsApart(r, t)
    BY <2>1, <2>3, <2>4, NoRowsIs DEF AddsApart, NewIds
  <2>6. ASSUME NEW y, Becomes(req[r], y, "audit", t)
        PROVE  Local(y, held[r], Rows)
    BY <1>2, <1>3, <1>4, <1>6, <2>1, <2>6, OrderlyRequest, RowsAre, WriteConflictLocal
       DEF At, Call, Tx
  <2> QED
    BY <1>6, <2>2, <2>3, <2>5, <2>6, ChangeKeeps
<1> QED
  BY <1>1, <1>2, <1>3, <1>5, <1>6 DEF WriteConflict, locks

LEMMA WriteAttestationKeeps ==
  ASSUME Ordered, NEW r \in Requests, WriteAttestation(r)
  PROVE  Ordered' /\ UNCHANGED <<matter, chains>>
<1> DEFINE call == Call(r)
           c    == call.claim
<1>1. PICK t : t = [Tx(r) EXCEPT !.claim = Only(c, Attested(claim[c], call.by, conflict, c))]
  OBVIOUS
<1>2. At(r, "write") /\ call.op = "verify"
  BY DEF WriteAttestation
<1>3. CASE Abort(r, "refused")
  BY <1>3, AbortKeeps
<1>4. CASE /\ claim[c].quoteVerification = "manual_verification_required"
           /\ claim[c].author # call.by
           /\ Change(r, t, "audit")
           /\ UNCHANGED <<matter, chains, held>>
  <2>1. Tx(r) = NoChanges /\ req[r].at \notin {"idle", "done"}
    BY <1>2, AboutToWrite
  <2>2. IsChanges(t) /\ DOMAIN t.claim = {c} /\ t.conflict = NoRows /\ t.section = NoRows
    BY <1>1, <2>1, NoChangesIs DEF IsChanges, HasFields, Only
  <2>3. c \in DOMAIN claim
    <3>1. Verifying(req[r], held[r], Rows)
      BY <1>2, <2>1, OrderlyRequest DEF Local, Call
    <3> QED
      BY <3>1, RowsAre DEF Verifying, Call
  <2>4. AddsApart(r, t)
    BY <2>2, <2>3, NoRowsIs DEF AddsApart, NewIds
  <2>5. ASSUME NEW y, Becomes(req[r], y, "audit", t)
        PROVE  Local(y, held[r], Rows)
    BY <1>1, <1>2, <1>4, <2>5, OrderlyRequest, RowsAre, WriteAttestationLocal DEF At, Call, Tx
  <2> QED
    BY <1>4, <2>1, <2>2, <2>4, <2>5, ChangeKeeps
<1> QED
  BY <1>1, <1>3, <1>4 DEF WriteAttestation, locks

LEMMA WriteDraftKeeps ==
  ASSUME Ordered, NEW r \in Requests, WriteDraft(r)
  PROVE  Ordered' /\ UNCHANGED <<matter, chains>>
<1> DEFINE call == Call(r)
<1>1. PICK s : s = NewId(FreshSections)
  OBVIOUS
<1>2. PICK t : t = [Tx(r) EXCEPT
        !.section  = Only(s, DraftedSection(call.ref, NextPosition(section), call.cited)),
        !.revision = {[section |-> s, number |-> 1, parent |-> 0, saw |-> 0]}]
  OBVIOUS
<1>3. At(r, "write") /\ call.op = "draft" /\ FreshSections # {}
  BY DEF WriteDraft
<1>4. CASE Abort(r, "refused")
  BY <1>4, AbortKeeps
<1>5. CASE /\ ParagraphRefFree(section, call.ref, s) /\ Visible(call, call.cited)
           /\ Change(r, t, "audit")
           /\ UNCHANGED <<matter, chains, held>>
  <2>1. /\ s \in Sections /\ s \notin DOMAIN section
        /\ \A q \in Requests : s \notin DOMAIN Tx(q).section
    BY <1>1, <1>3, NewIdIn, FreshIs
  <2>2. Tx(r) = NoChanges /\ req[r].at # "done"
    BY <1>3, AboutToWrite
  <2>3. IsChanges(t) /\ DOMAIN t.section = {s} /\ t.claim = NoRows /\ t.conflict = NoRows
    BY <1>2, <2>2, NoChangesIs DEF IsChanges, HasFields, Only
  <2>4. AddsApart(r, t)
    BY <2>1, <2>3, NoRowsIs DEF AddsApart, NewIds
  <2>5. VisibleIn(Rows, Role[call.by], call.cited)
    BY <1>5, VisibleIs
  <2>6. ASSUME NEW y, Becomes(req[r], y, "audit", t)
        PROVE  Local(y, held[r], Rows)
    BY <1>2, <1>3, <1>5, <2>1, <2>5, <2>6, OrderlyRequest, RowsAre, WriteDraftLocal
       DEF At, Call, Tx
  <2> QED
    BY <1>5, <2>2, <2>3, <2>4, <2>6, ChangeKeeps
<1> QED
  BY <1>1, <1>2, <1>4, <1>5 DEF WriteDraft, locks

LEMMA WriteRevisionKeeps ==
  ASSUME Ordered, NEW r \in Requests, WriteRevision(r)
  PROVE  Ordered' /\ UNCHANGED <<matter, chains>>
<1> DEFINE call == Call(r)
           s    == call.section
<1>1. PICK t : t = [Tx(r) EXCEPT
        !.section  = Only(s, Revised(section[s], call.ref, call.cited)),
        !.revision = {NextRevision(s, req[r].expected)}]
  OBVIOUS
<1>2. At(r, "write") /\ call.op = "revise"
  BY DEF WriteRevision
<1>3. CASE Abort(r, "refused")
  BY <1>3, AbortKeeps
<1>4. CASE /\ ParagraphRefFree(section, call.ref, s) /\ Visible(call, call.cited)
           /\ Change(r, t, "audit")
           /\ UNCHANGED <<matter, chains, held>>
  <2>1. Tx(r) = NoChanges /\ req[r].at \notin {"idle", "done"}
    BY <1>2, AboutToWrite
  <2>2. IsChanges(t) /\ DOMAIN t.section = {s} /\ t.claim = NoRows /\ t.conflict = NoRows
    BY <1>1, <2>1, NoChangesIs DEF IsChanges, HasFields, Only
  <2>3. s \in DOMAIN section
    <3>1. Revising(req[r], held[r], Rows)
      BY <1>2, <2>1, OrderlyRequest DEF Local, Call
    <3> QED
      BY <3>1, RowsAre DEF Revising, Call
  <2>4. AddsApart(r, t)
    BY <2>2, <2>3, NoRowsIs DEF AddsApart, NewIds
  <2>5. VisibleIn(Rows, Role[call.by], call.cited)
    BY <1>4, VisibleIs
  <2>6. ASSUME NEW y, Becomes(req[r], y, "audit", t)
        PROVE  Local(y, held[r], Rows)
    BY <1>1, <1>2, <1>4, <2>5, <2>6, OrderlyRequest, RowsAre, WriteRevisionLocal
       DEF At, Call, Tx, NextRevision
  <2> QED
    BY <1>4, <2>1, <2>2, <2>4, <2>6, ChangeKeeps
<1> QED
  BY <1>1, <1>3, <1>4 DEF WriteRevision, locks

LEMMA LockSectionForResetKeeps ==
  ASSUME Ordered, NEW r \in Requests, LockSectionForReset(r)
  PROVE  Ordered' /\ UNCHANGED <<matter, chains>>
<1>1. PICK s \in UnlockedSections(r) : Take(r, SectionLock(s))
  BY DEF LockSectionForReset
<1> DEFINE H == held[r] \cup {SectionLock(s)}
<1>2. req[r].at = "reset" /\ UNCHANGED <<matter, chains, req>>
  BY DEF LockSectionForReset, At
<1>3. /\ held' = [held EXCEPT ![r] = H]
      /\ \A q \in Requests \ {r} : H \cap held[q] = {}
  BY <1>1, TakeApart
<1> HIDE DEF H
<1>4. Moves(r, req[r], H)
  BY <1>2, <1>3 DEF Moves, Ordered, Shaped
<1>5. Local(req[r], H, Rows)
  BY <1>2, OrderlyRequest, HoldMoreLocal DEF H
<1>6. AddsApart(r, req[r].tx)
  BY OwnAddsApart DEF Tx
<1>7. FitsIn(r, req[r], H)
  BY <1>2, <1>3, <1>5, <1>6, OrderlyRequest DEF FitsIn, At, Call
<1> QED
  BY <1>4, <1>7, MoveKeeps DEF Moves

LEMMA ResetSectionsKeeps ==
  ASSUME Ordered, NEW r \in Requests, ResetSections(r)
  PROVE  Ordered' /\ UNCHANGED <<matter, chains>>
<1>1. PICK t : t = [Tx(r) EXCEPT !.section = ResetApprovals(section, DOMAIN section)]
  OBVIOUS
<1>2. /\ req[r].at = "reset" /\ Change(r, t, "append") /\ UNCHANGED <<matter, chains, held>>
      /\ \A s \in DOMAIN section : SectionLock(s) \in held[r]
  BY <1>1 DEF ResetSections, At, locks, UnlockedSections
<1>3. IsChanges(Tx(r))
  BY OrderlyRequest DEF Tx
<1>4. /\ IsChanges(t) /\ t.claim = Tx(r).claim /\ t.conflict = Tx(r).conflict
      /\ t.section = ResetApprovals(section, DOMAIN section)
  BY <1>1, <1>3 DEF IsChanges, HasFields
<1>5. NewIds(section, t.section) = {}
  BY <1>4 DEF NewIds, ResetApprovals
<1>6. AddsApart(r, t)
  BY <1>4, <1>5, OwnAddsApart
<1>7. ASSUME NEW y, Becomes(req[r], y, "append", t)
      PROVE  Local(y, held[r], Rows)
  BY <1>1, <1>2, <1>7, OrderlyRequest, RowsAre, ResetSectionsLocal DEF Tx
<1> QED
  BY <1>2, <1>4, <1>6, <1>7, ChangeKeeps

LEMMA EventsAre ==
  ASSUME NEW n
  PROVE  NewEvents(n) = Events(Rows.events, n)
BY RowsAre DEF NewEvents, Events

LEMMA AppendEventKeeps ==
  ASSUME Ordered, NEW r \in Requests, AppendEvent(r)
  PROVE  Ordered' /\ UNCHANGED <<matter, chains>>
<1>1. PICK t : t = [Tx(r) EXCEPT !.log = NewEvents(1)]
  OBVIOUS
<1>2. /\ req[r].at = "append" /\ Change(r, t, "commit") /\ UNCHANGED <<matter, chains, held>>
      /\ req[r].call.op \in {"create", "upload", "verify", "draft", "revise"}
  BY <1>1 DEF AppendEvent, At, Call, locks
<1>3. IsChanges(Tx(r))
  BY OrderlyRequest DEF Tx
<1>4. /\ IsChanges(t) /\ t.claim = Tx(r).claim /\ t.conflict = Tx(r).conflict
      /\ t.section = Tx(r).section
  BY <1>1, <1>3 DEF IsChanges, HasFields
<1>5. AddsApart(r, t)
  BY <1>4, OwnAddsApart
<1>6. ASSUME NEW y, Becomes(req[r], y, "commit", t)
      PROVE  Local(y, held[r], Rows)
  BY <1>1, <1>2, <1>6, OrderlyRequest, EventsAre, AppendEventLocal DEF Tx
<1> QED
  BY <1>2, <1>4, <1>5, <1>6, ChangeKeeps

LEMMA AppendFlagKeeps ==
  ASSUME Ordered, NEW r \in Requests, AppendFlag(r)
  PROVE  Ordered' /\ UNCHANGED <<matter, chains>>
<1>1. PICK b : b = Call(r).b
  OBVIOUS
<1>2. PICK v : v = Recompute(ClaimView(r)[b], ConflictView(r), b)
  OBVIOUS
<1>3. PICK t : t = [Tx(r) EXCEPT !.claim = Put(Tx(r).claim, b, v), !.log = NewEvents(3)]
  OBVIOUS
<1>4. /\ req[r].at = "append" /\ Change(r, t, "commit") /\ UNCHANGED <<matter, chains, held>>
      /\ req[r].call.op = "flag"
  BY <1>1, <1>2, <1>3 DEF AppendFlag, At, Call, locks
<1>5. IsChanges(Tx(r))
  BY OrderlyRequest DEF Tx
<1>6. /\ IsChanges(t) /\ t.claim = Put(Tx(r).claim, b, v) /\ t.conflict = Tx(r).conflict
      /\ t.section = Tx(r).section
  BY <1>3, <1>5 DEF IsChanges, HasFields
<1>7. b \in DOMAIN claim
  <2>1. Flagging(req[r], held[r], Rows)
    BY <1>4, OrderlyRequest DEF Local
  <2> QED
    BY <1>1, <2>1, RowsAre DEF Flagging, VisibleIn, Call
<1>8. NewIds(claim, t.claim) \subseteq NewIds(claim, Tx(r).claim)
  BY <1>6, <1>7 DEF NewIds, Put
<1>9. AddsApart(r, t)
  BY <1>6, <1>8, OwnAddsApart
<1>10. v = Recompute(Overlay(Rows.claim, Tx(r).claim)[b], Overlay(Rows.conflict, Tx(r).conflict), b)
  BY <1>2, RowsAre DEF ClaimView, ConflictView
<1>11. ASSUME NEW y, Becomes(req[r], y, "commit", t)
       PROVE  Local(y, held[r], Rows)
  BY <1>1, <1>3, <1>4, <1>10, <1>11, OrderlyRequest, EventsAre, AppendFlagLocal DEF Tx, Call
<1> QED
  BY <1>4, <1>6, <1>9, <1>11, ChangeKeeps

LEMMA AppendDecisionKeeps ==
  ASSUME Ordered, Typed(Rows), NEW r \in Requests, AppendDecision(r)
  PROVE  Ordered' /\ UNCHANGED <<matter, chains>>
<1>1. PICK x : x = req[r]
  OBVIOUS
<1>2. PICK M : M = Rows
  OBVIOUS
<1>3. PICK k : k = x.call.conflict
  OBVIOUS
<1>4. PICK row : row = Verdict(x, M)
  OBVIOUS
<1>5. PICK rows : rows = [c \in ClaimsOf(row) |-> VerdictClaims(x, M)[c]]
  OBVIOUS
<1>6. PICK n : n = 1 + Cardinality(ChangedClaims(x, M))
  OBVIOUS
<1>7. PICK t : t = [Tx(r) EXCEPT
                      !.conflict = Only(k, row), !.claim = rows,
                      !.decision = <<[conflict |-> k, saw |-> x.expected, prev |-> M.decided]>>,
                      !.log = NewEvents(n)]
  OBVIOUS
<1>8. /\ x.at = "append" /\ x.call.op = "decide" /\ UNCHANGED <<matter, chains, held>>
      /\ Change(r, t, "commit")
  <2>1. /\ x.at = "append" /\ x.call.op = "decide" /\ UNCHANGED <<matter, chains, held>>
    BY <1>1 DEF AppendDecision, At, Call, locks
  <2>2. row = Decided(conflict[k], Call(r).decision, Call(r).selected)
    BY <1>1, <1>2, <1>3, <1>4, RowsAre DEF Verdict, Call
  <2>3. VerdictClaims(x, M) = DecidedClaims(claim, Put(conflict, k, row), k)
    BY <1>2, <1>3, <1>4, RowsAre DEF VerdictClaims
  <2>4. ChangedClaims(x, M) = {c \in ClaimsOf(row) : StandingChanged(claim[c], VerdictClaims(x, M)[c])}
    BY <1>2, <1>4, RowsAre DEF ChangedClaims
  <2> QED
    BY <1>1, <1>2, <1>3, <1>5, <1>6, <1>7, <2>1, <2>2, <2>3, <2>4, RowsAre
       DEF AppendDecision, Call
<1>9. IsChanges(Tx(r)) /\ Tx(r) = x.tx
  BY <1>1, OrderlyRequest DEF Tx
<1>10. /\ IsChanges(t) /\ t.claim = rows /\ t.conflict = Only(k, row)
       /\ t.section = Tx(r).section
  BY <1>7, <1>9 DEF IsChanges, HasFields
<1>11. Deciding(x, held[r], M)
  BY <1>1, <1>2, <1>8, OrderlyRequest DEF Local
<1>12. k \in DOMAIN conflict /\ ClaimsOf(conflict[k]) \subseteq DOMAIN claim
  BY <1>2, <1>3, <1>8, <1>11, RowsAre DEF Deciding, VisibleIn
<1>13. ClaimsOf(row) = ClaimsOf(conflict[k])
  <2>1. conflict[k] \in Case!ConflictRow
    BY <1>12, RowsAre DEF Typed, Case!RowsTyped
  <2> QED
    BY <1>2, <1>3, <1>4, <2>1, DecidedKeeps, RowsAre DEF Verdict
<1>14. NewIds(claim, t.claim) = {} /\ NewIds(conflict, t.conflict) = {}
  BY <1>5, <1>10, <1>12, <1>13 DEF NewIds, Only
<1>15. AddsApart(r, t)
  BY <1>10, <1>14, OwnAddsApart
<1>16. ASSUME NEW y, Becomes(x, y, "commit", t)
       PROVE  Local(y, held[r], M)
  <2>1. t = [x.tx EXCEPT
               !.conflict = Only(k, Verdict(x, M)),
               !.claim    = [c \in ClaimsOf(Verdict(x, M)) |-> VerdictClaims(x, M)[c]],
               !.decision = <<[conflict |-> k, saw |-> x.expected, prev |-> M.decided]>>,
               !.log      = Events(M.events, 1 + Cardinality(ChangedClaims(x, M)))]
    BY <1>2, <1>4, <1>5, <1>6, <1>7, <1>9, EventsAre
  <2>2. Local(x, held[r], M)
    BY <1>1, <1>2, OrderlyRequest
  <2> QED
    BY <1>3, <1>8, <1>9, <1>16, <2>1, <2>2, AppendDecisionLocal
<1> QED
  BY <1>1, <1>2, <1>8, <1>10, <1>15, <1>16, ChangeKeeps

LEMMA AppendApprovalKeeps ==
  ASSUME Ordered, NEW r \in Requests, AppendApproval(r)
  PROVE  Ordered' /\ UNCHANGED <<matter, chains>>
<1>1. PICK s : s = Call(r).section
  OBVIOUS
<1>2. PICK t : t = [Tx(r) EXCEPT
                      !.section  = Only(s, ApprovedSection(claim, conflict, section[s])),
                      !.revision = {NextRevision(s, req[r].expected)},
                      !.log      = NewEvents(1)]
  OBVIOUS
<1>3. req[r].at = "append" /\ req[r].call.op = "approve"
  BY DEF AppendApproval, At, Call
<1>4. CASE Abort(r, "refused")
  BY <1>4, AbortKeeps
<1>5. CASE /\ ImpactOf(claim, conflict, section[s].claimIds) \in UsableSectionStatuses
           /\ Change(r, t, "commit") /\ UNCHANGED <<matter, chains, held>>
  <2>1. IsChanges(Tx(r))
    BY OrderlyRequest DEF Tx
  <2>2. /\ IsChanges(t) /\ t.claim = Tx(r).claim /\ t.conflict = Tx(r).conflict
        /\ DOMAIN t.section = {s}
    BY <1>2, <2>1 DEF IsChanges, HasFields, Only
  <2>3. s \in DOMAIN section
    <3>1. Approving(req[r], held[r], Rows)
      BY <1>3, OrderlyRequest DEF Local
    <3> QED
      BY <1>1, <3>1, RowsAre DEF Approving, Call
  <2>4. NewIds(section, t.section) = {}
    BY <2>2, <2>3 DEF NewIds
  <2>5. AddsApart(r, t)
    BY <2>2, <2>4, OwnAddsApart
  <2>6. t = [req[r].tx EXCEPT
               !.section  = Only(s, ApprovedSection(Rows.claim, Rows.conflict, Rows.section[s])),
               !.revision = {[section |-> s, number |-> Rows.section[s].version + 1,
                              parent |-> Rows.section[s].version, saw |-> req[r].expected]},
               !.log      = Events(Rows.events, 1)]
    BY <1>2, RowsAre, EventsAre DEF Tx, NextRevision
  <2>7. ASSUME NEW y, Becomes(req[r], y, "commit", t)
        PROVE  Local(y, held[r], Rows)
    BY <1>1, <1>3, <1>5, <2>6, <2>7, OrderlyRequest, RowsAre, AppendApprovalLocal DEF Call
  <2> QED
    BY <1>3, <1>5, <2>2, <2>5, <2>7, ChangeKeeps
<1> QED
  BY <1>1, <1>2, <1>4, <1>5 DEF AppendApproval, locks

\* A packet request moves to label l with its locks and changes as they are.
LEMMA PacketGotoKeeps ==
  ASSUME Ordered, NEW r \in Requests, NEW l, Goto(r, l), UNCHANGED <<matter, chains>>, held' = held,
         l \notin {"idle", "done"}, req[r].at # "done",
         PacketMove(req[r].at, l)
  PROVE  Ordered' /\ UNCHANGED <<matter, chains>>
<1>1. PICK H : H = held[r]
  OBVIOUS
<1>2. \A y : Becomes(req[r], y, l, req[r].tx) => Local(y, H, Rows)
  BY <1>1, OrderlyRequest, PacketMovesLocal
<1>3. /\ held' = [held EXCEPT ![r] = H]
      /\ \A q \in Requests \ {r} : H \cap held[q] = {}
  BY <1>1 DEF Ordered, Shaped, LocksExclusive
<1> QED
  BY <1>2, <1>3, GotoKeeps

LEMMA ReplayKeeps ==
  ASSUME Ordered, NEW r \in Requests, Replay(r)
  PROVE  Ordered' /\ UNCHANGED <<matter, chains>>
<1>1. \E reply : Abort(r, reply)
  BY DEF Replay
<1> QED
  BY <1>1, AbortKeeps

LEMMA LookForReplayKeeps ==
  ASSUME Ordered, NEW r \in Requests, LookForReplay(r)
  PROVE  Ordered' /\ UNCHANGED <<matter, chains>>
<1>1. CASE Replay(r)
  BY <1>1, ReplayKeeps
<1>2. CASE Goto(r, "share") /\ UNCHANGED <<matter, chains, locks>>
  BY <1>2, PacketGotoKeeps DEF LookForReplay, At, locks, PacketMove
<1> QED
  BY <1>1, <1>2 DEF LookForReplay

LEMMA ShareAuditLockKeeps ==
  ASSUME Ordered, NEW r \in Requests, ShareAuditLock(r)
  PROVE  Ordered' /\ UNCHANGED <<matter, chains>>
BY PacketGotoKeeps DEF ShareAuditLock, At, PacketMove

LEMMA ReleaseSharedKeeps ==
  ASSUME Ordered, NEW r \in Requests, ReleaseShared(r)
  PROVE  Ordered' /\ UNCHANGED <<matter, chains>>
BY PacketGotoKeeps DEF ReleaseShared, At, PacketMove

LEMMA SnapshotFailsKeeps ==
  ASSUME Ordered, NEW r \in Requests, SnapshotFails(r)
  PROVE  Ordered' /\ UNCHANGED <<matter, chains>>
BY AbortKeeps DEF SnapshotFails

LEMMA CancelDeadlockedKeeps ==
  ASSUME Ordered, NEW r \in Requests, CancelDeadlocked(r)
  PROVE  Ordered' /\ UNCHANGED <<matter, chains>>
BY AbortKeeps DEF CancelDeadlocked

\* A packet request goes on with other changes, none of them to a table.
LEMMA PacketChangeKeeps ==
  ASSUME Ordered, NEW r \in Requests, NEW t, NEW l, Change(r, t, l),
         UNCHANGED <<matter, chains, held>>, l \notin {"idle", "done"}, req[r].at # "done",
         IsChanges(t), t.claim = Tx(r).claim, t.conflict = Tx(r).conflict,
         t.section = Tx(r).section,
         \A y : Becomes(req[r], y, l, t) => Local(y, held[r], Rows)
  PROVE  Ordered' /\ UNCHANGED <<matter, chains>>
<1>1. AddsApart(r, t)
  BY OwnAddsApart
<1> QED
  BY <1>1, ChangeKeeps

LEMMA ReadRootKeeps ==
  ASSUME Ordered, NEW r \in Requests, ReadRoot(r)
  PROVE  Ordered' /\ UNCHANGED <<matter, chains>>
<1>1. PICK t : t = [Tx(r) EXCEPT !.root = Len(log)]
  OBVIOUS
<1>2. req[r].at = "root" /\ Change(r, t, "build") /\ UNCHANGED <<matter, chains, held>>
  BY <1>1 DEF ReadRoot, At, locks
<1>3. IsChanges(Tx(r))
  BY OrderlyRequest DEF Tx
<1>4. /\ IsChanges(t) /\ t.claim = Tx(r).claim /\ t.conflict = Tx(r).conflict
      /\ t.section = Tx(r).section
  BY <1>1, <1>3 DEF IsChanges, HasFields
<1>5. ASSUME NEW y, Becomes(req[r], y, "build", t)
      PROVE  Local(y, held[r], Rows)
  BY <1>1, <1>2, <1>5, OrderlyRequest, RowsAre, ReadRootLocal DEF Tx
<1> QED
  BY <1>2, <1>4, <1>5, PacketChangeKeeps

LEMMA BuildSnapshotKeeps ==
  ASSUME Ordered, NEW r \in Requests, BuildSnapshot(r)
  PROVE  Ordered' /\ UNCHANGED <<matter, chains>>
<1>1. PICK packet : packet =
        <<[type |-> Call(r).type, key |-> Call(r).key, root |-> Tx(r).root,
           entries |-> BuildPacket(claim, conflict, section, Call(r).type)]>>
  OBVIOUS
<1>2. PICK t : t = [Tx(r) EXCEPT !.packet = packet]
  OBVIOUS
<1>3. req[r].at = "build" /\ Change(r, t, "release") /\ UNCHANGED <<matter, chains, held>>
  BY <1>1, <1>2 DEF BuildSnapshot, At, locks
<1>4. IsChanges(Tx(r))
  BY OrderlyRequest DEF Tx
<1>5. /\ IsChanges(t) /\ t.claim = Tx(r).claim /\ t.conflict = Tx(r).conflict
      /\ t.section = Tx(r).section
  BY <1>2, <1>4 DEF IsChanges, HasFields
<1>6. t = [req[r].tx EXCEPT !.packet =
             <<[type |-> req[r].call.type, key |-> req[r].call.key, root |-> req[r].tx.root,
                entries |-> BuildPacket(Rows.claim, Rows.conflict, Rows.section,
                                        req[r].call.type)]>>]
  BY <1>1, <1>2, RowsAre DEF Tx, Call
<1>7. ASSUME NEW y, Becomes(req[r], y, "release", t)
      PROVE  Local(y, held[r], Rows)
  BY <1>3, <1>6, <1>7, OrderlyRequest, BuildSnapshotLocal
<1> QED
  BY <1>3, <1>5, <1>7, PacketChangeKeeps

LEMMA RecordPacketKeeps ==
  ASSUME Ordered, NEW r \in Requests, RecordPacket(r)
  PROVE  Ordered' /\ UNCHANGED <<matter, chains>>
<1>1. PICK t : t = [Tx(r) EXCEPT !.log = NewEvents(1)]
  OBVIOUS
<1>2. CASE Replay(r)
  BY <1>2, ReplayKeeps
<1>3. CASE Abort(r, "changed while rendering")
  BY <1>3, AbortKeeps
<1>4. CASE /\ ~KeyUsed(r) /\ Len(log) = Tx(r).root
           /\ Change(r, t, "commit") /\ UNCHANGED <<matter, chains, held>>
  <2>1. req[r].at = "append" /\ req[r].call.op = "packet"
    BY DEF RecordPacket, At, Call
  <2>2. IsChanges(Tx(r))
    BY OrderlyRequest DEF Tx
  <2>3. /\ IsChanges(t) /\ t.claim = Tx(r).claim /\ t.conflict = Tx(r).conflict
        /\ t.section = Tx(r).section
    BY <1>1, <2>2 DEF IsChanges, HasFields
  <2>4. /\ req[r].call.key \notin UsedKeys(Rows.packets, NoKey) /\ Rows.events = req[r].tx.root
        /\ t = [req[r].tx EXCEPT !.log = Events(Rows.events, 1)]
    BY <1>1, <1>4, RowsAre, EventsAre DEF KeyUsed, Call, Tx
  <2>5. ASSUME NEW y, Becomes(req[r], y, "commit", t)
        PROVE  Local(y, held[r], Rows)
    BY <2>1, <2>4, <2>5, OrderlyRequest, RecordPacketLocal
  <2> QED
    BY <1>4, <2>1, <2>3, <2>5, PacketChangeKeeps
<1> QED
  BY <1>1, <1>2, <1>3, <1>4 DEF RecordPacket, locks

-----------------------------------------------------------------------------
(***************************************************************************)
(* What a transaction about to commit publishes.                           *)
(***************************************************************************)

LEMMA PairSize ==
  ASSUME NEW a, NEW b, NEW S, S \subseteq {a, b}
  PROVE  Cardinality(S) \in 0 .. 2
<1>1. IsFiniteSet({a}) /\ Cardinality({a}) = 1
  BY FS_Singleton
<1>2. IsFiniteSet({a} \cup {b}) /\ Cardinality({a} \cup {b}) \in {1, 2}
  BY <1>1, FS_AddElement
<1>3. {a} \cup {b} = {a, b}
  OBVIOUS
<1>4. IsFiniteSet(S) /\ Cardinality(S) <= Cardinality({a, b})
  <2>1. IsFiniteSet({a, b})
    BY <1>2, <1>3
  <2> QED
    BY <2>1, FS_Subset
<1>5. Cardinality({a, b}) \in {1, 2}
  BY <1>2, <1>3
<1>6. Cardinality(S) \in Nat
  BY <1>4, FS_CardinalityType
<1> QED
  BY <1>4, <1>5, <1>6

LEMMA Ops ==
  ASSUME NEW x, NEW H, NEW M, Local(x, H, M), x.at \notin {"idle", "done"}
  PROVE  x.call.op \in {"create", "upload", "flag", "decide", "verify", "draft", "revise",
                        "approve", "packet"}
<1>1. x.call \in CallRecords
  BY DEF Local
<1> QED
  BY <1>1, CallFields

LEMMA ChangedFew ==
  ASSUME NEW x, NEW M
  PROVE  Cardinality(ChangedClaims(x, M)) \in 0 .. 2
<1>1. ChangedClaims(x, M) \subseteq {Verdict(x, M).claimA, Verdict(x, M).claimB}
  BY DEF ChangedClaims, ClaimsOf
<1> QED
  BY <1>1, PairSize

LEMMA CommitLog ==
  ASSUME NEW x, NEW H, NEW M, Local(x, H, M), x.at = "commit"
  PROVE  \E n \in 1 .. 3 : x.tx.log = Events(M.events, n)
<1>1. CASE x.call.op = "upload"
  <2>1. Audited(x, H, M, 1)
    BY <1>1 DEF Local, Uploading, Written
  <2> QED
    BY <2>1 DEF Audited
<1>2. CASE x.call.op = "create"
  <2>1. Audited(x, H, M, 1)
    BY <1>2 DEF Local, Creating, Written
  <2> QED
    BY <2>1 DEF Audited
<1>3. CASE x.call.op = "verify"
  <2>1. Audited(x, H, M, 1)
    BY <1>3 DEF Local, Verifying, Written
  <2> QED
    BY <2>1 DEF Audited
<1>4. CASE x.call.op = "flag"
  <2>1. Audited(x, H, M, 3)
    BY <1>4 DEF Local, Flagging, Written
  <2> QED
    BY <2>1 DEF Audited
<1>5. CASE x.call.op = "decide"
  <2>1. Audited(x, H, M, 1 + Cardinality(ChangedClaims(x, M)))
    BY <1>5 DEF Local, Deciding, Written
  <2>2. 1 + Cardinality(ChangedClaims(x, M)) \in 1 .. 3
    BY ChangedFew
  <2> QED
    BY <2>1, <2>2 DEF Audited
<1>6. CASE x.call.op \in {"draft", "revise", "approve", "packet"}
  <2>1. OneEvent(x, M)
    BY <1>6 DEF Local, Drafting, Revising, Approving, Packing, Written
  <2> QED
    BY <2>1 DEF OneEvent
<1> QED
  BY <1>1, <1>2, <1>3, <1>4, <1>5, <1>6, Ops

LEMMA CommitSources ==
  ASSUME NEW x, NEW H, NEW M, Local(x, H, M), x.at = "commit"
  PROVE  x.tx.sources = {} \/ (x.call.op = "upload" /\ x.tx.sources = {x.call.source})
BY Ops DEF Local, Uploading, Creating, Verifying, Flagging, Deciding, Drafting, Revising,
           Approving, Packing, EvidenceUntouched, Written

\* A conflict that is not new is decided, and the decision names the version it replaces.
DecisionOf(t, M, k) ==
  /\ k \in Conflicts /\ k \in DOMAIN M.conflict
  /\ DOMAIN t.conflict = {k}
  /\ M.conflict[k].version \in Nat
  /\ t.conflict[k].version = M.conflict[k].version + 1
  /\ t.decision = <<[conflict |-> k, saw |-> M.conflict[k].version, prev |-> M.decided]>>

LEMMA CommitDecision ==
  ASSUME NEW x, NEW H, NEW M, Local(x, H, M), Typed(M), x.at = "commit"
  PROVE  \/ /\ x.tx.decision = <<>>
            /\ DOMAIN x.tx.conflict \cap DOMAIN M.conflict = {}
         \/ \E k : DecisionOf(x.tx, M, k)
<1>1. CASE x.call.op \in {"upload", "create", "verify"}
  BY <1>1, NoRowsIs DEF Local, Uploading, Creating, Verifying, Written
<1>2. CASE x.call.op = "flag"
  <2>1. Flagging(x, H, M)
    BY <1>2 DEF Local
  <2>2. x.tx.decision = <<>>
    BY <2>1 DEF Flagging, Written
  <2>3. PICK k, v : k \notin DOMAIN M.conflict /\ x.tx.conflict = Only(k, v)
    BY <2>1 DEF Flagging, Written
  <2> QED
    BY <2>2, <2>3 DEF Only
<1>3. CASE x.call.op = "decide"
  <2> DEFINE k == x.call.conflict
  <2>1. Deciding(x, H, M)
    BY <1>3 DEF Local
  <2>2. k \in Conflicts /\ k \in DOMAIN M.conflict /\ M.conflict[k] \in Case!ConflictRow
    BY <2>1 DEF Deciding, Typed, Case!RowsTyped
  <2>3. /\ x.tx.conflict = Only(k, Verdict(x, M))
        /\ x.tx.decision = <<[conflict |-> k, saw |-> M.conflict[k].version, prev |-> M.decided]>>
    BY <2>1 DEF Deciding, Written
  <2>4. Verdict(x, M).version = M.conflict[k].version + 1 /\ M.conflict[k].version \in Nat
    BY <2>2, DecidedKeeps DEF Verdict, Case!ConflictRow
  <2>5. DOMAIN x.tx.conflict = {k} /\ x.tx.conflict[k] = Verdict(x, M)
    BY <2>3 DEF Only
  <2>6. DecisionOf(x.tx, M, k)
    BY <2>2, <2>3, <2>4, <2>5 DEF DecisionOf
  <2> QED
    BY <2>6
<1>4. CASE x.call.op \in {"draft", "revise", "approve", "packet"}
  <2>1. EvidenceUntouched(x)
    BY <1>4 DEF Local, Drafting, Revising, Approving, Packing, Written
  <2> QED
    BY <2>1, NoRowsIs DEF EvidenceUntouched
<1> QED
  BY <1>1, <1>2, <1>3, <1>4, Ops

\* Section s gets a revision, the child of its present one if it has any.
RevisionOf(t, M, s) ==
  \E number, parent \in Nat :
    /\ t.revision = {[section |-> s, number |-> number, parent |-> parent, saw |-> parent]}
    /\ DOMAIN t.section = {s}
    /\ t.section[s].version = parent + 1
    /\ s \in DOMAIN M.section => M.section[s].version = parent

LEMMA CommitSection ==
  ASSUME NEW x, NEW H, NEW M, Local(x, H, M), Typed(M), x.at = "commit"
  PROVE  \/ /\ x.tx.revision = {} /\ DOMAIN x.tx.section \subseteq DOMAIN M.section
            /\ \A s \in DOMAIN x.tx.section : x.tx.section[s].version = M.section[s].version
         \/ \E s : RevisionOf(x.tx, M, s)
<1> DEFINE same == /\ x.tx.revision = {} /\ DOMAIN x.tx.section \subseteq DOMAIN M.section
                   /\ \A s \in DOMAIN x.tx.section : x.tx.section[s].version = M.section[s].version
<1>1. ASSUME NEW n, Audited(x, H, M, n)
      PROVE  same
  <2>1. x.tx.revision = {} /\ x.tx.section = ResetApprovals(M.section, DOMAIN M.section)
    BY <1>1 DEF Audited, Late
  <2>2. DOMAIN x.tx.section = DOMAIN M.section
    BY <2>1 DEF ResetApprovals
  <2>3. ASSUME NEW s \in DOMAIN M.section PROVE x.tx.section[s].version = M.section[s].version
    BY <2>1, ResetKeeps
  <2> QED
    BY <2>1, <2>2, <2>3
<1>2. CASE x.call.op \in {"upload", "create", "verify", "flag", "decide"}
  <2>1. \E n : Audited(x, H, M, n)
    BY <1>2 DEF Local, Uploading, Creating, Verifying, Flagging, Deciding, Written
  <2> QED
    BY <1>1, <2>1
<1>3. CASE x.call.op = "draft"
  <2>1. Drafting(x, H, M)
    BY <1>3 DEF Local
  <2>2. PICK s \in Sections :
          /\ s \notin DOMAIN M.section
          /\ x.tx.section = Only(s, DraftedSection(x.call.ref, NextPosition(M.section), x.call.cited))
          /\ x.tx.revision = {[section |-> s, number |-> 1, parent |-> 0, saw |-> 0]}
    BY <2>1 DEF Drafting, Written
  <2>3. DOMAIN x.tx.section = {s} /\ x.tx.section[s].version = 1
    BY <2>2 DEF Only, DraftedSection
  <2>4. RevisionOf(x.tx, M, s)
    BY <2>2, <2>3 DEF RevisionOf
  <2> QED
    BY <2>4
<1>4. ASSUME NEW s \in DOMAIN M.section
      PROVE  M.section[s].version \in Nat /\ M.section[s] \in Case!SectionRow(M.section[s].revision.evidence)
  BY DEF Typed, Case!RowsTyped, Case!SectionRow
<1>5. CASE x.call.op = "revise"
  <2> DEFINE s == x.call.section
  <2>1. Revising(x, H, M)
    BY <1>5 DEF Local
  <2>2. /\ s \in DOMAIN M.section
        /\ x.tx.section = Only(s, Revised(M.section[s], x.call.ref, x.call.cited))
        /\ x.tx.revision = {RevisionAfter(M, s)}
    BY <2>1 DEF Revising, Written
  <2>3. DOMAIN x.tx.section = {s} /\ x.tx.section[s] = Revised(M.section[s], x.call.ref, x.call.cited)
    BY <2>2 DEF Only
  <2>4. x.tx.section[s].version = M.section[s].version + 1
    BY <1>4, <2>2, <2>3, RevisedKeeps
  <2>5. RevisionOf(x.tx, M, s)
    BY <1>4, <2>2, <2>3, <2>4 DEF RevisionOf, RevisionAfter
  <2> QED
    BY <2>5
<1>6. CASE x.call.op = "approve"
  <2> DEFINE s == x.call.section
  <2>1. Approving(x, H, M)
    BY <1>6 DEF Local
  <2>2. /\ s \in DOMAIN M.section
        /\ x.tx.section = Only(s, ApprovedSection(M.claim, M.conflict, M.section[s]))
        /\ x.tx.revision = {RevisionAfter(M, s)}
    BY <2>1 DEF Approving
  <2>3. /\ DOMAIN x.tx.section = {s}
        /\ x.tx.section[s] = ApprovedSection(M.claim, M.conflict, M.section[s])
    BY <2>2 DEF Only
  <2>4. x.tx.section[s].version = M.section[s].version + 1
    BY <1>4, <2>2, <2>3, ApprovedKeeps
  <2>5. RevisionOf(x.tx, M, s)
    BY <1>4, <2>2, <2>3, <2>4 DEF RevisionOf, RevisionAfter
  <2> QED
    BY <2>5
<1>7. CASE x.call.op = "packet"
  <2>1. Packing(x, H, M)
    BY <1>7 DEF Local
  <2> QED
    BY <2>1, NoRowsIs DEF Packing
<1> QED
  BY <1>2, <1>3, <1>5, <1>6, <1>7, Ops

LEMMA CommitPacket ==
  ASSUME NEW x, NEW H, NEW M, Local(x, H, M), x.at = "commit"
  PROVE  x.tx.packet = <<>> \/ \E p : x.tx.packet = <<p>>
<1>1. CASE x.call.op \in {"upload", "create", "verify", "flag", "decide"}
  <2>1. \E n : Audited(x, H, M, n)
    BY <1>1 DEF Local, Uploading, Creating, Verifying, Flagging, Deciding, Written
  <2> QED
    BY <2>1 DEF Audited
<1>2. CASE x.call.op \in {"draft", "revise", "approve"}
  BY <1>2 DEF Local, Drafting, Revising, Approving, Written
<1>3. CASE x.call.op = "packet"
  BY <1>3 DEF Local, Packing, Rendered
<1> QED
  BY <1>1, <1>2, <1>3, Ops

\* A finite enumeration of members of S is a sequence, and joins another at its end.
LEMMA Joined ==
  ASSUME NEW S, NEW s1 \in Seq(S), NEW n \in Nat, NEW s2 \in [1 .. n -> S]
  PROVE  /\ s1 \o s2 \in Seq(S) /\ Len(s1 \o s2) = Len(s1) + n
         /\ \A i \in 1 .. Len(s1) + n :
              (s1 \o s2)[i] = IF i <= Len(s1) THEN s1[i] ELSE s2[i - Len(s1)]
<1>1. s2 \in Seq(S) /\ Len(s2) = n
  OBVIOUS
<1> QED
  BY <1>1, ConcatProperties

\* When both parts are chained, so is the whole.
LEMMA ChainsJoin ==
  ASSUME NEW S, NEW chain \in Seq(S), NEW n \in Nat, NEW more \in [1 .. n -> S],
         \A i \in 1 .. Len(chain) : chain[i].prev = i - 1,
         \A i \in 1 .. n : more[i].prev = Len(chain) + i - 1
  PROVE  /\ chain \o more \in Seq(S) /\ Len(chain \o more) = Len(chain) + n
         /\ \A i \in 1 .. Len(chain) + n : (chain \o more)[i].prev = i - 1
<1> DEFINE new == chain \o more
<1>1. Len(chain) \in Nat
  OBVIOUS
<1>2. /\ new \in Seq(S) /\ Len(new) = Len(chain) + n
      /\ \A i \in 1 .. Len(chain) + n :
           new[i] = IF i <= Len(chain) THEN chain[i] ELSE more[i - Len(chain)]
  BY Joined
<1> HIDE DEF new
<1>3. ASSUME NEW i \in 1 .. Len(chain) + n
      PROVE  new[i].prev = i - 1
  <2>1. CASE i <= Len(chain)
    <3>1. i \in 1 .. Len(chain) /\ new[i] = chain[i]
      BY <1>1, <1>2, <2>1
    <3> QED
      BY <3>1
  <2>2. CASE ~(i <= Len(chain))
    <3>1. i - Len(chain) \in 1 .. n /\ new[i] = more[i - Len(chain)]
      BY <1>1, <1>2, <2>2
    <3>2. more[i - Len(chain)].prev = Len(chain) + (i - Len(chain)) - 1
      BY <3>1
    <3> QED
      BY <1>1, <3>1, <3>2
  <2> QED
    BY <2>1, <2>2
<1> QED
  BY <1>2, <1>3 DEF new

\* n events chained to the last one of a chain of events make a longer chain.
LEMMA ChainGrows ==
  ASSUME NEW chain \in Seq([prev : Nat]), \A i \in 1 .. Len(chain) : chain[i].prev = i - 1,
         NEW n \in Nat, NEW new, new = chain \o Events(Len(chain), n)
  PROVE  /\ new \in Seq([prev : Nat]) /\ Len(new) = Len(chain) + n
         /\ \A i \in 1 .. Len(new) : new[i].prev = i - 1
<1> DEFINE more == Events(Len(chain), n)
<1>1. Len(chain) \in Nat
  OBVIOUS
<1>2. more \in [1 .. n -> [prev : Nat]] /\ \A i \in 1 .. n : more[i].prev = Len(chain) + i - 1
  BY <1>1 DEF Events
<1>3. new = chain \o more
  OBVIOUS
<1> HIDE DEF more
<1>4. /\ chain \o more \in Seq([prev : Nat]) /\ Len(chain \o more) = Len(chain) + n
      /\ \A i \in 1 .. Len(chain) + n : (chain \o more)[i].prev = i - 1
  <2>1. \A S : chain \in Seq(S) /\ more \in [1 .. n -> S] =>
          /\ chain \o more \in Seq(S) /\ Len(chain \o more) = Len(chain) + n
          /\ \A i \in 1 .. Len(chain) + n : (chain \o more)[i].prev = i - 1
    <3>1. /\ n \in Nat
          /\ \A i \in 1 .. Len(chain) : chain[i].prev = i - 1
          /\ \A i \in 1 .. n : more[i].prev = Len(chain) + i - 1
      BY <1>2
    <3> QED
      BY ONLY <3>1, ChainsJoin
  <2> QED
    BY <1>2, <2>1, Zenon
<1>5. /\ new \in Seq([prev : Nat]) /\ Len(new) = Len(chain) + n
      /\ \A i \in 1 .. Len(chain) + n : new[i].prev = i - 1
  BY ONLY <1>3, <1>4, Zenon
<1> QED
  BY <1>5

\* The rows after request r, about to commit, has published its changes.
LEMMA PublishedRows ==
  ASSUME NEW r \in Requests, Publish(r)
  PROVE  /\ Rows'.sources = Rows.sources \cup Tx(r).sources
         /\ Rows'.claim = Overlay(Rows.claim, Tx(r).claim)
         /\ Rows'.conflict = Overlay(Rows.conflict, Tx(r).conflict)
         /\ Rows'.section = Overlay(Rows.section, Tx(r).section)
         /\ Rows'.events = Len(log \o Tx(r).log)
BY DEF Rows, Publish, ClaimView, ConflictView, SectionView

LEMMA PublishedLog ==
  ASSUME Ordered, NEW r \in Requests, At(r, "commit"), Publish(r)
  PROVE  /\ log' \in Seq([prev : Nat]) /\ Len(log') \in Len(log) + 1 .. Len(log) + 3
         /\ \A i \in 1 .. Len(log') : log'[i].prev = i - 1
<1>1. log \in Seq([prev : Nat]) /\ \A i \in 1 .. Len(log) : log[i].prev = i - 1
  BY DEF Ordered, Chained
<1>2. PICK n \in 1 .. 3 : Tx(r).log = Events(Len(log), n)
  BY OrderlyRequest, CommitLog, RowsAre DEF At, Tx
<1>3. log' = log \o Events(Len(log), n)
  BY <1>2 DEF Publish
<1>4. n \in Nat /\ Len(log) \in Nat
  BY <1>1
<1>5. /\ log' \in Seq([prev : Nat]) /\ Len(log') = Len(log) + n
      /\ \A i \in 1 .. Len(log') : log'[i].prev = i - 1
  BY <1>1, <1>3, <1>4, ChainGrows
<1> QED
  BY <1>4, <1>5

LEMMA PublishedRequests ==
  ASSUME Ordered, NEW r \in Requests, Publish(r)
  PROVE  /\ IsOver(req[r], req'[r]) /\ held'[r] = {}
         /\ \A q \in Requests : q # r => req'[q] = req[q] /\ held'[q] = held[q]
         /\ req' = [q \in Requests |-> req'[q]] /\ held' = [q \in Requests |-> held'[q]]
<1>1. /\ req' = [req EXCEPT ![r] = OverWith(req[r], "ok")]
      /\ held' = [held EXCEPT ![r] = {}]
  BY DEF Publish, OverWith, Call
<1>2. /\ req' = [q \in Requests |-> IF q = r THEN OverWith(req[r], "ok") ELSE req[q]]
      /\ held' = [q \in Requests |-> IF q = r THEN {} ELSE held[q]]
  BY <1>1 DEF Ordered, Shaped
<1> QED
  BY <1>2, OverIs

\* Those still at work lose nothing they rely on.
LEMMA PublishOrderly ==
  ASSUME Ordered, Typed(Rows), NEW r \in Requests, At(r, "commit"), Publish(r)
  PROVE  Orderly'
<1>1. Covers(Tx(r), held[r], Rows) /\ AuditLock \in held[r]
  BY OrderlyRequest, CommitCovers DEF At, Tx, Local
<1>2. PICK M2 : M2 = Rows'
  OBVIOUS
<1>3. /\ M2.sources = Rows.sources \cup Tx(r).sources
      /\ M2.claim = Overlay(Rows.claim, Tx(r).claim)
      /\ M2.conflict = Overlay(Rows.conflict, Tx(r).conflict)
      /\ M2.section = Overlay(Rows.section, Tx(r).section)
      /\ M2.events = Len(log')
  BY <1>2, PublishedRows DEF Publish
<1>4. Rows.events \in Nat /\ M2.events \in Nat /\ Rows.events < M2.events
  <2>1. Len(log) \in Nat
    BY OrderlyRequest
  <2> QED
    BY <1>3, <2>1, PublishedLog, RowsAre
<1>5. ASSUME NEW q \in Requests, q # r
      PROVE  Local(req[q], held[q], M2)
  <2>1. Local(req[q], held[q], Rows) /\ held[q] \cap held[r] = {}
    BY <1>5 DEF Ordered, Orderly, LocksExclusive
  <2>2. CASE req[q].at \in {"idle", "done"}
    BY <2>1, <2>2 DEF Local
  <2>3. CASE req[q].at \notin {"idle", "done"}
    <3>1. Preserved(Rows, M2, held[q])
      BY <1>1, <1>3, <1>4, <2>1, CommitPreserves
    <3>2. /\ NewIds(claim, Tx(r).claim) \cap NewIds(claim, Tx(q).claim) = {}
          /\ NewIds(conflict, Tx(r).conflict) \cap NewIds(conflict, Tx(q).conflict) = {}
          /\ NewIds(section, Tx(r).section) \cap NewIds(section, Tx(q).section) = {}
      BY <1>5 DEF Ordered, NewIdsApart
    <3>3. Unborn(Tx(q), Rows, M2)
      BY <1>3, <3>2, CommitBears, RowsAre
    <3> QED
      BY <2>1, <2>3, <3>1, <3>3, OthersKept DEF Tx
  <2> QED
    BY <2>2, <2>3
<1>6. ASSUME NEW q \in Requests
      PROVE  Local(req'[q], held'[q], M2)
  <2>1. CASE q = r
    BY <2>1, PublishedRequests, OverLocal
  <2>2. CASE q # r
    BY <1>5, <2>2, PublishedRequests
  <2> QED
    BY <2>1, <2>2
<1> QED
  BY <1>2, <1>6 DEF Orderly

LEMMA PublishApart ==
  ASSUME Ordered, NEW r \in Requests, At(r, "commit"), Publish(r)
  PROVE  Shaped' /\ Tables' /\ LocksExclusive' /\ NewIdsApart' /\ UploadsApart'
<1>1. /\ IsRequest(req'[r]) /\ req'[r].at = "done" /\ req'[r].call = req[r].call
      /\ req'[r].tx = NoChanges /\ held'[r] = {}
  BY PublishedRequests DEF IsOver
<1>2. \A q \in Requests : q # r => req'[q] = req[q] /\ held'[q] = held[q]
  BY PublishedRequests
<1>3. Shaped'
  <2>1. \A q \in Requests : IsRequest(req'[q]) /\ (req'[q].at = "idle" => req'[q] = Idle)
    BY <1>1, <1>2 DEF Ordered, Shaped
  <2> QED
    BY <2>1, PublishedRequests DEF Shaped
<1>4. Tables'
  BY DEF Publish, ClaimView, ConflictView, SectionView, Overlay, Tables, IsTable
<1>5. LocksExclusive'
  <2>1. \A p, q \in Requests : p # q => held'[p] \cap held'[q] = {}
    BY <1>1, <1>2 DEF Ordered, LocksExclusive
  <2> QED
    BY <2>1 DEF LocksExclusive
<1>6. NewIdsApart'
  <2>1. /\ DOMAIN claim \subseteq DOMAIN claim' /\ DOMAIN conflict \subseteq DOMAIN conflict'
        /\ DOMAIN section \subseteq DOMAIN section'
    BY DEF Publish, ClaimView, ConflictView, SectionView, Overlay
  <2>2. ASSUME NEW q \in Requests
        PROVE  /\ NewIds(claim', req'[q].tx.claim)
                    \subseteq IF q = r THEN {} ELSE NewIds(claim, Tx(q).claim)
               /\ NewIds(conflict', req'[q].tx.conflict)
                    \subseteq IF q = r THEN {} ELSE NewIds(conflict, Tx(q).conflict)
               /\ NewIds(section', req'[q].tx.section)
                    \subseteq IF q = r THEN {} ELSE NewIds(section, Tx(q).section)
    <3>1. CASE q = r
      BY <1>1, <3>1, NoChangesIs, NoRowsIs DEF NewIds
    <3>2. CASE q # r
      BY <1>2, <2>1, <3>2 DEF NewIds, Tx
    <3> QED
      BY <3>1, <3>2
  <2>3. ASSUME NEW p \in Requests, NEW q \in Requests, p # q
        PROVE  /\ NewIds(claim', req'[p].tx.claim) \cap NewIds(claim', req'[q].tx.claim) = {}
               /\ NewIds(conflict', req'[p].tx.conflict) \cap NewIds(conflict', req'[q].tx.conflict) = {}
               /\ NewIds(section', req'[p].tx.section) \cap NewIds(section', req'[q].tx.section) = {}
    <3>1. CASE p = r \/ q = r
      BY <2>2, <3>1
    <3>2. CASE p # r /\ q # r
      <4>1. /\ NewIds(claim, Tx(p).claim) \cap NewIds(claim, Tx(q).claim) = {}
            /\ NewIds(conflict, Tx(p).conflict) \cap NewIds(conflict, Tx(q).conflict) = {}
            /\ NewIds(section, Tx(p).section) \cap NewIds(section, Tx(q).section) = {}
        BY <2>3 DEF Ordered, NewIdsApart
      <4> QED
        BY <2>2, <3>2, <4>1
    <3> QED
      BY <3>1, <3>2
  <2> QED
    BY <2>3 DEF NewIdsApart, Tx
<1>7. UploadsApart'
  <2>1. \A q \in Requests : req'[q].call = req[q].call
    BY <1>1, <1>2
  <2>2. Tx(r).sources = {} \/ (Call(r).op = "upload" /\ Tx(r).sources = {Call(r).source})
    BY OrderlyRequest, CommitSources DEF At, Tx, Call
  <2>3. ASSUME NEW q \in Requests, req[q].call.op = "upload", req'[q].at # "done"
        PROVE  req[q].call.source \notin sources'
    <3>1. q # r /\ req'[q] = req[q]
      BY <1>1, <1>2, <2>3
    <3>2. req[q].call.source \notin sources
      BY <2>3, <3>1 DEF Ordered, UploadsApart, Call, At
    <3>3. req[q].call.source \notin Tx(r).sources
      BY <2>2, <2>3, <3>1 DEF Ordered, UploadsApart, Call
    <3> QED
      BY <3>2, <3>3 DEF Publish
  <2>4. ASSUME NEW p \in Requests, NEW q \in Requests,
               req[p].call.op = "upload", req[q].call.op = "upload",
               req[p].call.source = req[q].call.source
        PROVE  p = q
    BY <2>4 DEF Ordered, UploadsApart, Call
  <2> QED
    BY <2>1, <2>3, <2>4 DEF UploadsApart, Call, At
<1> QED
  BY <1>3, <1>4, <1>5, <1>6, <1>7

\* The decisions ds are chained, each replaces a version of its conflict that `table' has
\* left behind, and no two replace the same one.
Follow(ds, table) ==
  /\ \A i \in 1 .. Len(ds) :
       /\ ds[i].prev = i - 1 /\ ds[i].saw \in Nat
       /\ ds[i].conflict \in DOMAIN table
       /\ ds[i].saw < table[ds[i].conflict].version
  /\ \A i, j \in 1 .. Len(ds) :
       ds[i].conflict = ds[j].conflict /\ ds[i].saw = ds[j].saw => i = j

\* Decision d on conflict k, which it takes from its present version to the next.
Replaces(d, k, length, old, new) ==
  /\ d.conflict = k /\ d.saw = old[k].version /\ d.prev = length
  /\ k \in DOMAIN old /\ old[k].version \in Nat /\ new[k].version = old[k].version + 1
  /\ DOMAIN old \subseteq DOMAIN new
  /\ \A j \in DOMAIN old : j # k => new[j] = old[j]

LEMMA DecisionAdded ==
  ASSUME NEW S, NEW ds \in Seq(S), NEW d \in S, NEW k, NEW old, NEW new,
         Follow(ds, old), Replaces(d, k, Len(ds), old, new)
  PROVE  ds \o <<d>> \in Seq(S) /\ Follow(ds \o <<d>>, new)
<1> DEFINE more == ds \o <<d>>
           n    == Len(ds)
<1>1. n \in Nat
  OBVIOUS
<1>2. /\ more \in Seq(S) /\ Len(more) = n + 1
      /\ more[n + 1] = d /\ \A i \in 1 .. n : more[i] = ds[i]
  <2>1. <<d>> \in Seq(S) /\ Len(<<d>>) = 1 /\ <<d>>[1] = d
    OBVIOUS
  <2>2. /\ more \in Seq(S) /\ Len(more) = n + 1
        /\ \A i \in 1 .. n + 1 : more[i] = IF i <= n THEN ds[i] ELSE <<d>>[i - n]
    BY <2>1, ConcatProperties
  <2> QED
    BY <1>1, <2>1, <2>2
<1> HIDE DEF more
<1>3. ASSUME NEW i \in 1 .. n
      PROVE  /\ more[i].prev = i - 1 /\ more[i].saw \in Nat
             /\ more[i].conflict \in DOMAIN new
             /\ more[i].saw < new[more[i].conflict].version
             /\ ~(more[i].conflict = k /\ more[i].saw = d.saw)
  <2>1. /\ more[i] = ds[i] /\ ds[i].prev = i - 1 /\ ds[i].saw \in Nat
        /\ ds[i].conflict \in DOMAIN old /\ ds[i].saw < old[ds[i].conflict].version
    BY <1>2 DEF Follow
  <2>2. CASE ds[i].conflict = k
    BY <2>1, <2>2 DEF Replaces
  <2>3. CASE ds[i].conflict # k
    BY <2>1, <2>3 DEF Replaces
  <2> QED
    BY <2>2, <2>3
<1>4. /\ d.prev = n /\ d.saw \in Nat /\ d.conflict \in DOMAIN new
      /\ d.saw < new[d.conflict].version /\ d.conflict = k
  BY DEF Replaces
<1>5. ASSUME NEW i \in 1 .. n + 1
      PROVE  /\ more[i].prev = i - 1 /\ more[i].saw \in Nat
             /\ more[i].conflict \in DOMAIN new
             /\ more[i].saw < new[more[i].conflict].version
  <2>1. i \in 1 .. n \/ i = n + 1
    BY <1>1
  <2>2. CASE i = n + 1
    BY <1>1, <1>2, <1>4, <2>2
  <2> QED
    BY <1>3, <2>1, <2>2
<1>6. ASSUME NEW i \in 1 .. n + 1, NEW j \in 1 .. n + 1,
             more[i].conflict = more[j].conflict, more[i].saw = more[j].saw
      PROVE  i = j
  <2>1. (i \in 1 .. n \/ i = n + 1) /\ (j \in 1 .. n \/ j = n + 1)
    BY <1>1
  <2>2. CASE i \in 1 .. n /\ j \in 1 .. n
    BY <1>2, <1>6, <2>2 DEF Follow
  <2>3. CASE i = n + 1 /\ j \in 1 .. n
    BY <1>2, <1>3, <1>4, <1>6, <2>3
  <2>4. CASE i \in 1 .. n /\ j = n + 1
    BY <1>2, <1>3, <1>4, <1>6, <2>4
  <2> QED
    BY <2>1, <2>2, <2>3, <2>4
<1>7. Follow(more, new)
  BY <1>2, <1>5, <1>6 DEF Follow
<1> QED
  BY <1>2, <1>7 DEF more

LEMMA FollowKept ==
  ASSUME NEW ds, NEW old, NEW new, Follow(ds, old), DOMAIN old \subseteq DOMAIN new,
         \A k \in DOMAIN old : new[k] = old[k]
  PROVE  Follow(ds, new)
BY DEF Follow

LEMMA MemberOf ==
  ASSUME NEW S, NEW chain \in Seq(S), NEW i \in 1 .. Len(chain)
  PROVE  chain[i] \in S
OBVIOUS

LEMMA SawIsNat ==
  ASSUME NEW ds \in Seq([conflict : Conflicts, saw : Nat, prev : Nat]), NEW i \in 1 .. Len(ds)
  PROVE  ds[i].saw \in Nat
<1>1. ds[i] \in [conflict : Conflicts, saw : Nat, prev : Nat]
  BY MemberOf, Zenon
<1> QED
  BY <1>1

LEMMA PublishChained ==
  ASSUME Ordered, Typed(Rows), NEW r \in Requests, At(r, "commit"), Publish(r)
  PROVE  Chained'
<1>1. /\ log' \in Seq([prev : Nat])
      /\ \A i \in 1 .. Len(log') : log'[i].prev = i - 1
  BY PublishedLog
<1>2. PICK S : S = [conflict : Conflicts, saw : Nat, prev : Nat]
  OBVIOUS
<1>3. decisions \in Seq(S) /\ Follow(decisions, conflict)
  <2>1. decisions \in Seq([conflict : Conflicts, saw : Nat, prev : Nat])
    BY DEF Ordered, Chained
  <2>2. ASSUME NEW i \in 1 .. Len(decisions) PROVE decisions[i].saw \in Nat
    BY <2>1, SawIsNat, Zenon
  <2> QED
    BY <1>2, <2>1, <2>2, Zenon DEF Ordered, Chained, Follow
<1>4. decisions' = decisions \o Tx(r).decision /\ conflict' = Overlay(conflict, Tx(r).conflict)
  BY DEF Publish, ConflictView
<1>5. /\ DOMAIN conflict' = DOMAIN conflict \cup DOMAIN Tx(r).conflict
      /\ \A k \in DOMAIN conflict \cup DOMAIN Tx(r).conflict :
           conflict'[k] = IF k \in DOMAIN Tx(r).conflict THEN Tx(r).conflict[k] ELSE conflict[k]
  BY <1>4 DEF Overlay
<1>6. decisions' \in Seq(S) /\ Follow(decisions', conflict')
  <2>1. CASE Tx(r).decision = <<>> /\ DOMAIN Tx(r).conflict \cap DOMAIN conflict = {}
    <3>1. decisions' = decisions
      BY <1>3, <1>4, <2>1, ConcatEmptySeq
    <3>2. \A k \in DOMAIN conflict : conflict'[k] = conflict[k]
      BY <1>5, <2>1
    <3> QED
      BY <1>3, <1>5, <3>1, <3>2, FollowKept
  <2>2. ASSUME NEW k, DecisionOf(Tx(r), Rows, k)
        PROVE  decisions' \in Seq(S) /\ Follow(decisions', conflict')
    <3> DEFINE d == [conflict |-> k, saw |-> conflict[k].version, prev |-> Len(decisions)]
    <3>1. /\ k \in Conflicts /\ k \in DOMAIN conflict /\ DOMAIN Tx(r).conflict = {k}
          /\ conflict[k].version \in Nat
          /\ Tx(r).conflict[k].version = conflict[k].version + 1
          /\ Tx(r).decision = <<d>>
      BY <2>2, RowsAre DEF DecisionOf, Rows
    <3>2. Len(decisions) \in Nat
      BY <1>3
    <3>3. d \in S
      BY <1>2, <3>1, <3>2
    <3>4. Replaces(d, k, Len(decisions), conflict, conflict')
      BY <1>5, <3>1 DEF Replaces
    <3>5. decisions' = decisions \o <<d>>
      BY <1>4, <3>1
    <3> HIDE DEF d
    <3> QED
      BY <1>3, <3>3, <3>4, <3>5, DecisionAdded, Zenon
  <2>3. \/ Tx(r).decision = <<>> /\ DOMAIN Tx(r).conflict \cap DOMAIN conflict = {}
        \/ \E k : DecisionOf(Tx(r), Rows, k)
    BY OrderlyRequest, CommitDecision, RowsAre DEF At, Tx
  <2> QED
    BY <2>1, <2>2, <2>3
<1> QED
  BY <1>1, <1>2, <1>6, Zenon DEF Chained, Follow

LEMMA PublishDescended ==
  ASSUME Ordered, Typed(Rows), NEW r \in Requests, At(r, "commit"), Publish(r)
  PROVE  Descended'
<1>1. /\ revisions' = revisions \cup Tx(r).revision
      /\ section' = Overlay(section, Tx(r).section)
  BY DEF Publish, SectionView
<1>2. /\ DOMAIN section' = DOMAIN section \cup DOMAIN Tx(r).section
      /\ \A s \in DOMAIN section \cup DOMAIN Tx(r).section :
           section'[s] = IF s \in DOMAIN Tx(r).section THEN Tx(r).section[s] ELSE section[s]
  BY <1>1 DEF Overlay
<1>3. /\ \A x \in revisions : /\ x.section \in DOMAIN section
                              /\ x.parent \in Nat /\ x.parent < section[x.section].version
                              /\ x.saw = x.parent
      /\ \A x, y \in revisions : x.section = y.section /\ x.parent = y.parent => x = y
  BY DEF Ordered, Descended
<1>4. CASE /\ Tx(r).revision = {} /\ DOMAIN Tx(r).section \subseteq DOMAIN section
           /\ \A s \in DOMAIN Tx(r).section : Tx(r).section[s].version = section[s].version
  <2>1. revisions' = revisions
    BY <1>1, <1>4
  <2>2. \A s \in DOMAIN section : s \in DOMAIN section' /\ section'[s].version = section[s].version
    BY <1>2, <1>4
  <2> QED
    BY <1>3, <2>1, <2>2 DEF Descended
<1>5. ASSUME NEW s, RevisionOf(Tx(r), Rows, s)
      PROVE  Descended'
  <2>1. PICK number \in Nat, parent \in Nat :
          /\ Tx(r).revision = {[section |-> s, number |-> number, parent |-> parent, saw |-> parent]}
          /\ DOMAIN Tx(r).section = {s}
          /\ Tx(r).section[s].version = parent + 1
          /\ s \in DOMAIN section => section[s].version = parent
    BY <1>5, RowsAre DEF RevisionOf
  <2>2. PICK new : new = [section |-> s, number |-> number, parent |-> parent, saw |-> parent]
    OBVIOUS
  <2>3. new.section = s /\ new.parent = parent /\ new.saw = parent
    BY <2>2
  <2>4. revisions' = revisions \cup {new}
    BY <1>1, <2>1, <2>2
  <2>5. /\ s \in DOMAIN section' /\ section'[s].version = parent + 1
        /\ \A t \in DOMAIN section : t \in DOMAIN section' /\ (t # s => section'[t] = section[t])
    BY <1>2, <2>1
  <2>6. ASSUME NEW x \in revisions
        PROVE  /\ x.section \in DOMAIN section' /\ x.parent \in Nat /\ x.saw = x.parent
               /\ x.parent < section'[x.section].version
               /\ ~(x.section = s /\ x.parent = parent)
    <3>1. /\ x.section \in DOMAIN section /\ x.parent \in Nat /\ x.saw = x.parent
          /\ x.parent < section[x.section].version
      BY <1>3
    <3>2. CASE x.section = s
      <4>1. x.parent < parent
        BY <2>1, <3>1, <3>2
      <4> QED
        BY <2>5, <3>1, <3>2, <4>1
    <3>3. CASE x.section # s
      BY <2>5, <3>1, <3>3
    <3> QED
      BY <3>2, <3>3
  <2>7. parent < section'[s].version
    BY <2>5
  <2>8. \A x \in revisions' : /\ x.section \in DOMAIN section'
                              /\ x.parent \in Nat /\ x.parent < section'[x.section].version
                              /\ x.saw = x.parent
    BY <2>3, <2>4, <2>5, <2>6, <2>7
  <2>9. \A x, y \in revisions' : x.section = y.section /\ x.parent = y.parent => x = y
    BY <1>3, <2>3, <2>4, <2>6
  <2> QED
    BY <2>8, <2>9 DEF Descended
<1>6. \/ /\ Tx(r).revision = {} /\ DOMAIN Tx(r).section \subseteq DOMAIN section
         /\ \A s \in DOMAIN Tx(r).section : Tx(r).section[s].version = section[s].version
      \/ \E s : RevisionOf(Tx(r), Rows, s)
  BY OrderlyRequest, CommitSection, RowsAre DEF At, Tx
<1> QED
  BY <1>4, <1>5, <1>6

\* The packets are a sequence, whatever they are.
IsChain(chain) == chain \in Seq({chain[i] : i \in DOMAIN chain})

LEMMA OneMore ==
  ASSUME NEW S, NEW chain \in Seq(S), NEW p
  PROVE  Len(chain \o <<>>) = Len(chain) /\ Len(chain \o <<p>>) = Len(chain) + 1
<1>1. chain \o <<>> = chain
  BY ConcatEmptySeq
<1>2. chain \in Seq(S \cup {p}) /\ <<p>> \in Seq(S \cup {p}) /\ Len(<<p>>) = 1
  OBVIOUS
<1> QED
  BY <1>1, <1>2, ConcatProperties

LEMMA PublishCounted ==
  ASSUME Ordered, IsChain(packets), NEW r \in Requests, At(r, "commit"), Publish(r)
  PROVE  Counted' /\ Len(packets') \in Len(packets) .. Len(packets) + 1
<1>1. Cardinality(Ended') = Cardinality(Ended) + 1 /\ Cardinality(Ended) \in Nat
  <2>1. /\ req'[r].at = "done"
        /\ \A q \in Requests : q # r => req'[q] = req[q]
    BY PublishedRequests DEF IsOver
  <2>2. Ended' = Ended \cup {r} /\ r \notin Ended
    BY <2>1 DEF Ended, At
  <2>3. IsFiniteSet(Ended)
    BY RequestsAssumption, FS_Subset DEF Ended
  <2> QED
    BY <2>2, <2>3, FS_AddElement, FS_CardinalityType
<1>2. Len(log) \in 0 .. 3 * Cardinality(Ended) /\ Len(packets) \in 0 .. Cardinality(Ended)
  BY DEF Ordered, Counted
<1>3. Len(log') \in 0 .. 3 * Cardinality(Ended')
  BY <1>1, <1>2, PublishedLog
<1>4. Len(packets') \in Len(packets) .. Len(packets) + 1
  <2>1. packets' = packets \o Tx(r).packet
    BY DEF Publish
  <2>2. Tx(r).packet = <<>> \/ \E p : Tx(r).packet = <<p>>
    BY OrderlyRequest, CommitPacket DEF At, Tx
  <2>3. Len(packets') = Len(packets) \/ Len(packets') = Len(packets) + 1
    BY <2>1, <2>2, OneMore DEF IsChain
  <2> QED
    BY <1>1, <1>2, <2>3
<1> QED
  BY <1>1, <1>2, <1>3, <1>4 DEF Counted

LEMMA PublishKeeps ==
  ASSUME Ordered, Typed(Rows), IsChain(packets), NEW r \in Requests, At(r, "commit"), Publish(r)
  PROVE  Ordered'
BY PublishOrderly, PublishApart, PublishChained, PublishDescended, PublishCounted DEF Ordered

-----------------------------------------------------------------------------
(***************************************************************************)
(* EvidenceCase computes with the operators of MatterEvidence too.         *)
(***************************************************************************)

LEMMA CasePut ==
  ASSUME NEW f, NEW k, NEW v
  PROVE  Case!Put(f, k, v) = Put(f, k, v)
BY DEF Put, Case!Put

LEMMA CaseExtractedClaim ==
  ASSUME NEW r, NEW privilege, NEW quote
  PROVE  Case!ExtractedClaim(r, privilege, quote) = ExtractedClaim(r, privilege, quote)
BY DEF ExtractedClaim, ClaimEligibility, WithholdingPrivilege, UnverifiedQuoteStates,
       Case!ExtractedClaim, Case!ClaimEligibility, Case!WithholdingPrivilege,
       Case!UnverifiedQuoteStates

LEMMA CaseAttested ==
  ASSUME NEW row, NEW r, NEW cf, NEW c
  PROVE  Case!Attested(row, r, cf, c) = Attested(row, r, cf, c)
BY DEF Attested, EligibilityOf, ClaimEligibility, WithholdingPrivilege, UnverifiedQuoteStates,
       RelatedConflicts, ClaimsOf, Case!Attested, Case!EligibilityOf, Case!ClaimEligibility,
       Case!WithholdingPrivilege, Case!UnverifiedQuoteStates, Case!RelatedConflicts,
       Case!ClaimsOf

LEMMA CaseResetApprovals ==
  ASSUME NEW sec, NEW S
  PROVE  Case!ResetApprovals(sec, S) = ResetApprovals(sec, S)
BY DEF ResetApprovals, Case!ResetApprovals

LEMMA CaseOtherOpenConflict ==
  ASSUME NEW cf, NEW a, NEW b, NEW k
  PROVE  Case!OtherOpenConflict(cf, a, b, k) = OtherOpenConflict(cf, a, b, k)
BY DEF OtherOpenConflict, OpenConflictStatuses, ClaimsOf, Case!OtherOpenConflict,
       Case!OpenConflictStatuses, Case!ClaimsOf

LEMMA CaseFlaggedConflict ==
  ASSUME NEW a, NEW b, NEW severity
  PROVE  Case!FlaggedConflict(a, b, severity) = FlaggedConflict(a, b, severity)
BY DEF FlaggedConflict, Case!FlaggedConflict

LEMMA CaseRecomputeClaims ==
  ASSUME NEW cl, NEW cf, NEW S
  PROVE  Case!RecomputeClaims(cl, cf, S) = RecomputeClaims(cl, cf, S)
BY DEF RecomputeClaims, Recompute, AggregateStatus, Precedence, Disposition, RelatedConflicts,
       ClaimsOf, EligibilityOf, ClaimEligibility, WithholdingPrivilege, UnverifiedQuoteStates,
       Case!RecomputeClaims, Case!Recompute, Case!AggregateStatus, Case!Precedence,
       Case!Disposition, Case!RelatedConflicts, Case!ClaimsOf, Case!EligibilityOf,
       Case!ClaimEligibility, Case!WithholdingPrivilege, Case!UnverifiedQuoteStates

LEMMA CaseDecided ==
  ASSUME NEW row, NEW decision, NEW selected
  PROVE  Case!Decided(row, decision, selected) = Decided(row, decision, selected)
BY DEF Decided, TransitionFor, Case!Decided, Case!TransitionFor

LEMMA CaseDecisionPermitted ==
  ASSUME NEW decision, NEW role, NEW severity
  PROVE  Case!DecisionPermitted(decision, role, severity) = DecisionPermitted(decision, role, severity)
BY DEF DecisionPermitted, DispositiveDecisions, SeniorRoles, SeniorCounsel,
       Case!DecisionPermitted, Case!DispositiveDecisions, Case!SeniorRoles, Case!SeniorCounsel

LEMMA CaseVisibleTo ==
  ASSUME NEW role, NEW privilege
  PROVE  Case!VisibleTo(role, privilege) = VisibleTo(role, privilege)
BY DEF VisibleTo, HasPrivilegeClearance, SeniorCounsel, WithholdingPrivilege, Case!VisibleTo,
       Case!HasPrivilegeClearance, Case!SeniorCounsel, Case!WithholdingPrivilege

LEMMA CaseHasPrivilegeClearance ==
  ASSUME NEW role
  PROVE  Case!HasPrivilegeClearance(role) = HasPrivilegeClearance(role)
BY DEF HasPrivilegeClearance, SeniorCounsel, Case!HasPrivilegeClearance, Case!SeniorCounsel

LEMMA CasePacketPermitted ==
  ASSUME NEW role
  PROVE  Case!PacketPermitted(role) = PacketPermitted(role)
BY DEF PacketPermitted, SeniorCounsel, Case!PacketPermitted, Case!SeniorCounsel

LEMMA CaseDecidedClaims ==
  ASSUME NEW cl, NEW cf, NEW k
  PROVE  Case!DecidedClaims(cl, cf, k) = DecidedClaims(cl, cf, k)
BY DEF DecidedClaims, RecomputeClaims, Recompute, AggregateStatus, Precedence, Disposition,
       RelatedConflicts, ClaimsOf, EligibilityOf, ClaimEligibility, WithholdingPrivilege,
       UnverifiedQuoteStates, Case!DecidedClaims, Case!RecomputeClaims, Case!Recompute,
       Case!AggregateStatus, Case!Precedence, Case!Disposition, Case!RelatedConflicts,
       Case!ClaimsOf, Case!EligibilityOf, Case!ClaimEligibility, Case!WithholdingPrivilege,
       Case!UnverifiedQuoteStates

LEMMA CaseStandingChanged ==
  ASSUME NEW row1, NEW row2
  PROVE  Case!StandingChanged(row1, row2) = StandingChanged(row1, row2)
BY DEF StandingChanged, Case!StandingChanged

LEMMA CaseParagraphRefFree ==
  ASSUME NEW sec, NEW ref, NEW editing
  PROVE  Case!ParagraphRefFree(sec, ref, editing) = ParagraphRefFree(sec, ref, editing)
BY DEF ParagraphRefFree, Case!ParagraphRefFree

LEMMA CaseDraftedSection ==
  ASSUME NEW ref, NEW position, NEW cited
  PROVE  Case!DraftedSection(ref, position, cited) = DraftedSection(ref, position, cited)
BY DEF DraftedSection, DraftRevision, NoEvidence, Case!DraftedSection, Case!DraftRevision,
       Case!NoEvidence

LEMMA CaseNextPosition ==
  ASSUME NEW sec
  PROVE  Case!NextPosition(sec) = NextPosition(sec)
BY DEF NextPosition, Max, Case!NextPosition, Case!Max

LEMMA CaseRevised ==
  ASSUME NEW row, NEW ref, NEW cited
  PROVE  Case!Revised(row, ref, cited) = Revised(row, ref, cited)
BY DEF Revised, DraftRevision, NoEvidence, Case!Revised, Case!DraftRevision, Case!NoEvidence

LEMMA CaseImpactOf ==
  ASSUME NEW cl, NEW cf, NEW cited
  PROVE  Case!ImpactOf(cl, cf, cited) = ImpactOf(cl, cf, cited)
BY DEF ImpactOf, SectionImpact, EvidenceClaims, ClosedUnderPreserved, ClaimsOf, IsWithholding,
       WithholdingPrivilege, Case!ImpactOf, Case!SectionImpact, Case!EvidenceClaims,
       Case!ClosedUnderPreserved, Case!ClaimsOf, Case!IsWithholding, Case!WithholdingPrivilege

LEMMA CaseApprovedSection ==
  ASSUME NEW cl, NEW cf, NEW row
  PROVE  Case!ApprovedSection(cl, cf, row) = ApprovedSection(cl, cf, row)
BY DEF ApprovedSection, ApprovedRevision, EvidenceState, EvidenceClaims, ClosedUnderPreserved,
       ClaimsOf, RelatedConflicts, EvidenceOf, Case!ApprovedSection, Case!ApprovedRevision,
       Case!EvidenceState, Case!EvidenceClaims, Case!ClosedUnderPreserved, Case!ClaimsOf,
       Case!RelatedConflicts, Case!EvidenceOf

LEMMA CaseUsedKeys ==
  ASSUME NEW artifacts, NEW key0
  PROVE  Case!UsedKeys(artifacts, key0) = UsedKeys(artifacts, key0)
BY DEF UsedKeys, Case!UsedKeys

LEMMA CaseBuildPacket ==
  ASSUME NEW cl, NEW cf, NEW sec, NEW type
  PROVE  Case!BuildPacket(cl, cf, sec, type) = BuildPacket(cl, cf, sec, type)
BY DEF BuildPacket, ProductionEntry, ProductionContent, Approved, RevisionApprovalIsCurrent,
       NoEvidence, EvidenceState, EvidenceClaims, ClosedUnderPreserved, ClaimsOf,
       RelatedConflicts, EvidenceOf, ProductionDisposition, ImpactOf, SectionImpact,
       IsWithholding, WithholdingPrivilege, UsableSectionStatuses, Disclosures, InternalEntry,
       Case!BuildPacket, Case!ProductionEntry, Case!ProductionContent, Case!Approved,
       Case!RevisionApprovalIsCurrent, Case!NoEvidence, Case!EvidenceState, Case!EvidenceClaims,
       Case!ClosedUnderPreserved, Case!ClaimsOf, Case!RelatedConflicts, Case!EvidenceOf,
       Case!ProductionDisposition, Case!ImpactOf, Case!SectionImpact, Case!IsWithholding,
       Case!WithholdingPrivilege, Case!UsableSectionStatuses, Case!Disclosures,
       Case!InternalEntry

LEMMA CaseDecisionTypes ==
  Case!DecisionTypes = DecisionTypes
BY DEF DecisionTypes, Case!DecisionTypes

LEMMA CaseOpenConflictStatuses ==
  Case!OpenConflictStatuses = OpenConflictStatuses
BY DEF OpenConflictStatuses, Case!OpenConflictStatuses

LEMMA CaseUsableSectionStatuses ==
  Case!UsableSectionStatuses = UsableSectionStatuses
BY DEF UsableSectionStatuses, Case!UsableSectionStatuses

LEMMA CaseCardinality ==
  ASSUME NEW S
  PROVE  Case!Cardinality(S) = Cardinality(S)
BY DEF Cardinality, Case!Cardinality

-----------------------------------------------------------------------------
(***************************************************************************)
(* A transaction publishes one operation of EvidenceCase.                  *)
(***************************************************************************)

\* The opening matter has room for what every request still appends.
LEMMA RoomLeft ==
  ASSUME Ordered, NEW r \in Requests, At(r, "commit")
  PROVE  /\ Len(log) \in Nat /\ Len(log) + 3 <= MaxEvents
         /\ Len(packets) \in Nat /\ Len(packets) < MaxPackets
<1>1. IsFiniteSet(Requests) /\ Ended \subseteq Requests /\ r \in Requests /\ r \notin Ended
  BY RequestsAssumption DEF Ended, At
<1>2. /\ IsFiniteSet(Ended)
      /\ Cardinality(Ended \cup {r}) = Cardinality(Ended) + 1
      /\ Cardinality(Ended) \in Nat
  BY <1>1, FS_Subset, FS_AddElement, FS_CardinalityType
<1>3. Cardinality(Ended \cup {r}) <= Cardinality(Requests) /\ Cardinality(Requests) \in Nat
  BY <1>1, FS_Subset, FS_CardinalityType
<1>4. MaxEvents \in Nat /\ MaxPackets \in Nat
  BY CaseAssumption DEF Case!ConstantsAssumption
<1>5. Len(log) \in 0 .. 3 * Cardinality(Ended) /\ Len(packets) \in 0 .. Cardinality(Ended)
  BY DEF Ordered, Counted
<1> QED
  BY <1>2, <1>3, <1>4, <1>5, RequestsAssumption

LEMMA PublishesEvents ==
  ASSUME Ordered, NEW r \in Requests, At(r, "commit"), Publish(r), NEW n \in 1 .. 3,
         Tx(r).log = Events(Len(log), n)
  PROVE  Case!Audit(n)
<1>1. log \in Seq([prev : Nat]) /\ \A i \in 1 .. Len(log) : log[i].prev = i - 1
  BY DEF Ordered, Chained
<1>2. log' = log \o Events(Len(log), n)
  BY DEF Publish
<1>3. n \in Nat
  OBVIOUS
<1>4. Len(log') = Len(log) + n
  BY <1>1, <1>2, <1>3, ChainGrows
<1>5. Len(log) + n <= MaxEvents
  <2>1. Len(log) \in Nat /\ Len(log) + 3 <= MaxEvents
    BY RoomLeft
  <2>2. MaxEvents \in Nat
    BY CaseAssumption DEF Case!ConstantsAssumption
  <2> QED
    BY <2>1, <2>2
<1> QED
  BY <1>4, <1>5 DEF Case!Audit

LEMMA OverlayReset ==
  ASSUME NEW f
  PROVE  Overlay(f, ResetApprovals(f, DOMAIN f)) = ResetApprovals(f, DOMAIN f)
BY DEF Overlay, ResetApprovals

LEMMA PublishesAudited ==
  ASSUME Ordered, IsChain(packets), NEW r \in Requests, At(r, "commit"), Publish(r),
         NEW n \in 1 .. 3, Audited(req[r], held[r], Rows, n)
  PROVE  Case!Audit(n) /\ Case!WithdrawApprovals /\ packets' = packets
<1>1. /\ Tx(r).section = ResetApprovals(section, DOMAIN section)
      /\ Tx(r).log = Events(Len(log), n)
      /\ Tx(r).packet = <<>>
  BY RowsAre DEF Audited, Late, At, Tx
<1>2. Case!Audit(n)
  BY <1>1, PublishesEvents
<1>3. section' = ResetApprovals(section, DOMAIN section)
  BY <1>1, OverlayReset DEF Publish, SectionView
<1>4. Case!WithdrawApprovals
  BY <1>3, CaseResetApprovals DEF Case!WithdrawApprovals
<1>5. packets' = packets
  BY <1>1, ConcatEmptySeq DEF Publish, IsChain
<1> QED
  BY <1>2, <1>4, <1>5

LEMMA OverlaySame ==
  ASSUME NEW f, IsTable(f)
  PROVE  Overlay(f, NoRows) = f
BY OverlayNothing DEF IsTable

LEMMA PublishedTables ==
  ASSUME Ordered, NEW r \in Requests, Publish(r)
  PROVE  /\ sources' = sources \cup Tx(r).sources
         /\ Tx(r).claim = NoRows => claim' = claim
         /\ Tx(r).conflict = NoRows => conflict' = conflict
         /\ Tx(r).section = NoRows => section' = section
         /\ claim' = Overlay(claim, Tx(r).claim)
         /\ conflict' = Overlay(conflict, Tx(r).conflict)
         /\ section' = Overlay(section, Tx(r).section)
<1>1. IsTable(claim) /\ IsTable(conflict) /\ IsTable(section)
  BY DEF Ordered, Tables
<1> QED
  BY <1>1, OverlaySame DEF Publish, ClaimView, ConflictView, SectionView

\* What is known of a request about to commit.
LEMMA AboutToCommit ==
  ASSUME Ordered, NEW r \in Requests, At(r, "commit")
  PROVE  /\ Local(req[r], held[r], Rows) /\ req[r].at = "commit"
         /\ req[r].call = Call(r) /\ req[r].tx = Tx(r) /\ Call(r) \in CallRecords
         /\ req[r].at \in Written /\ req[r].at \notin {"idle", "done"}
BY OrderlyRequest DEF At, Call, Tx, Local, Written

LEMMA UploadPublished ==
  ASSUME Ordered, IsChain(packets), NEW r \in Requests, At(r, "commit"), Publish(r),
         Call(r).op = "upload"
  PROVE  Case!Next
<1> DEFINE d == Call(r).source
<1>1. Uploading(req[r], held[r], Rows) /\ Call(r).by \in Reviewers /\ d \in Sources
  BY AboutToCommit, CallFields DEF Local
<1>2. /\ VisibleTo(Role[Call(r).by], Privilege[d])
      /\ Tx(r).sources = {d} /\ Tx(r).claim = NoRows /\ Tx(r).conflict = NoRows
      /\ Audited(req[r], held[r], Rows, 1)
  BY <1>1, AboutToCommit DEF Uploading
<1>3. Case!Audit(1) /\ Case!WithdrawApprovals /\ packets' = packets
  BY <1>2, PublishesAudited
<1>4. sources' = sources \cup {d} /\ claim' = claim /\ conflict' = conflict
  BY <1>2, PublishedTables
<1>5. d \notin sources
  BY DEF Ordered, UploadsApart, At
<1>6. Case!IngestSource(Call(r).by, d)
  BY <1>2, <1>3, <1>4, <1>5, CaseVisibleTo DEF Case!IngestSource
<1> QED
  BY <1>1, <1>6 DEF Case!Next

LEMMA CreatePublished ==
  ASSUME Ordered, IsChain(packets), NEW r \in Requests, At(r, "commit"), Publish(r),
         Call(r).op = "create"
  PROVE  Case!Next
<1> DEFINE d == Call(r).source
           q == Call(r).quote
<1>1. /\ Creating(req[r], held[r], Rows)
      /\ Call(r).by \in Reviewers /\ d \in Sources /\ q \in QuoteChoices
  BY AboutToCommit, CallFields DEF Local
<1>2. /\ VisibleTo(Role[Call(r).by], Privilege[d]) /\ d \in sources
      /\ Tx(r).sources = {} /\ Tx(r).conflict = NoRows
      /\ Audited(req[r], held[r], Rows, 1)
  BY <1>1, AboutToCommit, RowsAre DEF Creating
<1>3. PICK c \in Claims : /\ c \notin DOMAIN claim
                          /\ Tx(r).claim = Only(c, ExtractedClaim(Call(r).by, Privilege[d], q))
  BY <1>1, AboutToCommit, RowsAre DEF Creating
<1>4. Case!Audit(1) /\ Case!WithdrawApprovals /\ packets' = packets
  BY <1>2, PublishesAudited
<1>5. sources' = sources /\ conflict' = conflict
  BY <1>2, PublishedTables
<1>6. claim' = Put(claim, c, ExtractedClaim(Call(r).by, Privilege[d], q))
  BY <1>3, PublishedTables, OverlayOnly
<1>7. claim' = Case!Put(claim, c, Case!ExtractedClaim(Call(r).by, Privilege[d], q))
  BY <1>6, CasePut, CaseExtractedClaim
<1>8. Case!CreateClaim(Call(r).by, c, d, q)
  BY <1>2, <1>3, <1>4, <1>5, <1>7, CaseVisibleTo DEF Case!CreateClaim
<1> QED
  BY <1>1, <1>8 DEF Case!Next

\* On a row that exists, a new value is an update.
LEMMA PutUpdates ==
  ASSUME NEW f, IsTable(f), NEW k \in DOMAIN f, NEW v
  PROVE  Put(f, k, v) = [f EXCEPT ![k] = v]
BY DEF Put, IsTable

LEMMA VerifyPublished ==
  ASSUME Ordered, IsChain(packets), NEW r \in Requests, At(r, "commit"), Publish(r),
         Call(r).op = "verify"
  PROVE  Case!Next
<1> DEFINE c == Call(r).claim
           by == Call(r).by
<1>1. Verifying(req[r], held[r], Rows) /\ by \in Reviewers /\ c \in Claims
  BY AboutToCommit, CallFields DEF Local
<1>2. /\ HasPrivilegeClearance(Role[by]) /\ c \in DOMAIN claim
      /\ claim[c].quoteVerification = "manual_verification_required"
      /\ claim[c].author # by
      /\ Tx(r).claim = Only(c, Attested(claim[c], by, conflict, c))
      /\ Tx(r).sources = {} /\ Tx(r).conflict = NoRows
      /\ Audited(req[r], held[r], Rows, 1)
  BY <1>1, AboutToCommit, RowsAre DEF Verifying
<1>3. Case!Audit(1) /\ Case!WithdrawApprovals /\ packets' = packets
  BY <1>2, PublishesAudited
<1>4. sources' = sources /\ conflict' = conflict
  BY <1>2, PublishedTables
<1>5. claim' = [claim EXCEPT ![c] = Attested(claim[c], by, conflict, c)]
  <2>1. claim' = Put(claim, c, Attested(claim[c], by, conflict, c))
    BY <1>2, PublishedTables, OverlayOnly
  <2>2. IsTable(claim)
    BY DEF Ordered, Tables
  <2> QED
    BY <1>2, <2>1, <2>2, PutUpdates
<1>6. claim' = [claim EXCEPT ![c] = Case!Attested(claim[c], by, conflict, c)]
  BY <1>5, CaseAttested
<1>7. Case!VerifyQuote(by, c)
  BY <1>2, <1>3, <1>4, <1>6, CaseHasPrivilegeClearance DEF Case!VerifyQuote
<1> QED
  BY <1>1, <1>7 DEF Case!Next

LEMMA OverlayFlagged ==
  ASSUME NEW M, NEW k, NEW new, NEW S, S \subseteq DOMAIN M.claim
  PROVE  Overlay(M.claim, FlaggedClaims(M, k, new, S))
           = RecomputeClaims(M.claim, Put(M.conflict, k, new), S)
BY DEF Overlay, FlaggedClaims, RecomputeClaims

LEMMA FlagPublished ==
  ASSUME Ordered, IsChain(packets), NEW r \in Requests, At(r, "commit"), Publish(r),
         Call(r).op = "flag"
  PROVE  Case!Next
<1> DEFINE a   == Call(r).a
           b   == Call(r).b
           by  == Call(r).by
           new == FlaggedConflict(a, b, Call(r).severity)
<1>1. /\ Flagging(req[r], held[r], Rows)
      /\ by \in Reviewers /\ a \in Claims /\ b \in Claims /\ Call(r).severity \in SeverityChoices
  BY AboutToCommit, CallFields DEF Local
<1>2. /\ a # b /\ {a, b} \subseteq DOMAIN claim
      /\ \A c \in {a, b} : VisibleTo(Role[by], claim[c].privilege)
      /\ Tx(r).sources = {}
      /\ Audited(req[r], held[r], Rows, 3)
  BY <1>1, AboutToCommit, RowsAre DEF Flagging, VisibleIn
<1>3. PICK k \in Conflicts :
        /\ k \notin DOMAIN conflict
        /\ ~OtherOpenConflict(conflict, a, b, k)
        /\ Tx(r).conflict = Only(k, new)
        /\ Tx(r).claim = FlaggedClaims(Rows, k, new, {a, b})
  BY <1>1, AboutToCommit, RowsAre DEF Flagging
<1>4. Case!Audit(3) /\ Case!WithdrawApprovals /\ packets' = packets
  BY <1>2, PublishesAudited
<1>5. sources' = sources
  BY <1>2, PublishedTables
<1>6. conflict' = Put(conflict, k, new)
  BY <1>3, PublishedTables, OverlayOnly
<1>7. claim' = RecomputeClaims(claim, conflict', {a, b})
  <2>1. claim' = Overlay(Rows.claim, FlaggedClaims(Rows, k, new, {a, b}))
    BY <1>3, PublishedTables, RowsAre
  <2> QED
    BY <1>2, <1>6, <2>1, OverlayFlagged, RowsAre
<1>8. conflict' = Case!Put(conflict, k, Case!FlaggedConflict(a, b, Call(r).severity))
  BY <1>6, CasePut, CaseFlaggedConflict
<1>9. claim' = Case!RecomputeClaims(claim, conflict', {a, b})
  BY <1>7, CaseRecomputeClaims
<1>10. Case!FlagConflict(by, k, a, b, Call(r).severity)
  BY <1>2, <1>3, <1>4, <1>5, <1>8, <1>9, CaseVisibleTo, CaseOtherOpenConflict DEF Case!FlagConflict
<1> QED
  BY <1>1, <1>3, <1>10 DEF Case!Next

LEMMA OverlayDecided ==
  ASSUME NEW cl, NEW cf, NEW k, NEW new, new = DecidedClaims(cl, cf, k),
         NEW S, S = ClaimsOf(cf[k]), S \subseteq DOMAIN cl
  PROVE  Overlay(cl, [c \in S |-> new[c]]) = new
<1>1. new = [c \in DOMAIN cl |-> IF c \in S THEN Recompute(cl[c], cf, c) ELSE cl[c]]
  BY DEF DecidedClaims, RecomputeClaims
<1> QED
  BY <1>1 DEF Overlay

\* The indexes, checked as the decision commits, leave the pair one open conflict.
LEMMA NoOtherOpen ==
  ASSUME NEW old, NEW k, NEW new, NEW sec, NEW arts, IndexesHold(Put(old, k, new), sec, arts),
         new.status \in OpenConflictStatuses
  PROVE  ~OtherOpenConflict(old, new.claimA, new.claimB, k)
<1> SUFFICES ASSUME OtherOpenConflict(old, new.claimA, new.claimB, k) PROVE FALSE
  OBVIOUS
<1>1. PICK j \in DOMAIN old \ {k} : old[j].status \in OpenConflictStatuses
                                    /\ ClaimsOf(old[j]) = {new.claimA, new.claimB}
  BY DEF OtherOpenConflict
<1> DEFINE f == Put(old, k, new)
<1>2. j \in DOMAIN f /\ k \in DOMAIN f /\ f[j] = old[j] /\ f[k] = new
  BY <1>1 DEF Put
<1> HIDE DEF f
<1>3. SamePair(f[j], f[k]) /\ {f[j].status, f[k].status} \subseteq OpenConflictStatuses
  BY <1>1, <1>2 DEF SamePair, ClaimsOf
<1>4. j = k
  BY <1>2, <1>3 DEF IndexesHold, f
<1> QED
  BY <1>1, <1>4

LEMMA DecidePublished ==
  ASSUME Ordered, Typed(Rows), IsChain(packets), NEW r \in Requests, At(r, "commit"), Publish(r),
         IndexesHold(ConflictView(r), SectionView(r), packets \o Tx(r).packet),
         Call(r).op = "decide"
  PROVE  Case!Next
<1> DEFINE k   == Call(r).conflict
           by  == Call(r).by
           row == Case!Decided(conflict[k], Call(r).decision, Call(r).selected)
           cl  == DecidedClaims(claim, Put(conflict, k, row), k)
<1>1. /\ Deciding(req[r], held[r], Rows)
      /\ by \in Reviewers /\ k \in Conflicts /\ Call(r).decision \in DecisionTypes
      /\ Call(r).selected \in {"a", "b"}
  BY AboutToCommit, CallFields DEF Local
<1>2. row = Decided(conflict[k], Call(r).decision, Call(r).selected)
  BY CaseDecided
<1>3. k \in DOMAIN conflict /\ conflict[k] \in Case!ConflictRow
  BY <1>1, AboutToCommit, RowsAre DEF Deciding, Typed, Case!RowsTyped
<1>4. /\ row.claimA = conflict[k].claimA /\ row.claimB = conflict[k].claimB
      /\ ClaimsOf(row) = ClaimsOf(conflict[k]) /\ row.severity = conflict[k].severity
  BY <1>3, <1>2, DecidedKeeps
<1>5. Verdict(req[r], Rows) = row /\ VerdictClaims(req[r], Rows) = cl
  BY <1>2, AboutToCommit, RowsAre DEF Verdict, VerdictClaims
<1> DEFINE changed == {c \in ClaimsOf(row) : StandingChanged(claim[c], cl[c])}
<1>6. ChangedClaims(req[r], Rows) = changed
  BY <1>5, RowsAre DEF ChangedClaims
<1> HIDE DEF row, cl
<1>7. /\ DecisionPermitted(Call(r).decision, Role[by], conflict[k].severity)
      /\ ClaimsOf(conflict[k]) \subseteq DOMAIN claim
      /\ \A c \in ClaimsOf(conflict[k]) : VisibleTo(Role[by], claim[c].privilege)
  BY <1>1, AboutToCommit, RowsAre DEF Deciding, VisibleIn
<1>8. /\ Tx(r).sources = {}
      /\ Tx(r).conflict = Only(k, row)
      /\ Tx(r).claim = [c \in ClaimsOf(row) |-> cl[c]]
      /\ Audited(req[r], held[r], Rows, 1 + Cardinality(changed))
  BY <1>1, <1>5, <1>6, AboutToCommit DEF Deciding
<1>9. 1 + Cardinality(changed) \in 1 .. 3
  <2>1. Cardinality(ChangedClaims(req[r], Rows)) \in 0 .. 2
    BY ONLY ChangedFew
  <2>2. Cardinality(changed) \in 0 .. 2
    BY ONLY <2>1, <1>6
  <2> HIDE DEF changed
  <2> QED
    BY ONLY <2>2
<1>10. Case!Audit(1 + Cardinality(changed)) /\ Case!WithdrawApprovals /\ packets' = packets
  BY <1>8, <1>9, PublishesAudited
<1>11. sources' = sources
  BY <1>8, PublishedTables
<1>12. conflict' = Put(conflict, k, row) /\ conflict'[k] = row
  <2>1. conflict' = Put(conflict, k, row)
    BY <1>8, PublishedTables, OverlayOnly
  <2> QED
    BY <2>1 DEF Put
<1>13. conflict' = [conflict EXCEPT ![k] = row]
  <2>1. IsTable(conflict)
    BY DEF Ordered, Tables
  <2> QED
    BY <1>3, <1>12, <2>1, PutUpdates
<1>14. claim' = cl
  <2>1. claim' = Overlay(claim, [c \in ClaimsOf(row) |-> cl[c]])
    BY <1>8, PublishedTables
  <2>2. cl = DecidedClaims(claim, conflict', k)
    BY <1>12 DEF cl
  <2> QED
    BY <1>4, <1>7, <1>12, <2>1, <2>2, OverlayDecided
<1>15. row.status \in OpenConflictStatuses => ~OtherOpenConflict(conflict, row.claimA, row.claimB, k)
  <2>1. ConflictView(r) = Put(conflict, k, row)
    BY <1>8, OverlayOnly DEF ConflictView
  <2> QED
    BY <2>1, NoOtherOpen
<1>16. claim' = Case!DecidedClaims(claim, conflict', k)
  BY <1>12, <1>14, CaseDecidedClaims DEF cl
<1>17. Case!Audit(1 + Case!Cardinality({c \in {row.claimA, row.claimB} :
                                          Case!StandingChanged(claim[c], claim'[c])}))
  <2>1. {c \in {row.claimA, row.claimB} : Case!StandingChanged(claim[c], claim'[c])} = changed
    BY <1>14, CaseStandingChanged DEF ClaimsOf
  <2> QED
    BY <1>10, <2>1, CaseCardinality
<1>18. \A c \in {row.claimA, row.claimB} : Case!VisibleTo(Role[by], claim[c].privilege)
  BY <1>4, <1>7, CaseVisibleTo DEF ClaimsOf
<1>19. Case!DecisionPermitted(Call(r).decision, Role[by], row.severity)
  BY <1>4, <1>7, CaseDecisionPermitted
<1>20. row.status \in Case!OpenConflictStatuses =>
         ~Case!OtherOpenConflict(conflict, row.claimA, row.claimB, k)
  BY <1>15, CaseOpenConflictStatuses, CaseOtherOpenConflict
<1> HIDE DEF changed
<1>21. Case!Decide(by, k, Call(r).decision, Call(r).selected)
  BY <1>3, <1>10, <1>11, <1>13, <1>16, <1>17, <1>18, <1>19, <1>20 DEF Case!Decide, row
<1> QED
  BY <1>1, <1>21, CaseDecisionTypes DEF Case!Next

\* A request about sections publishes one event and its section.
LEMMA PublishesSection ==
  ASSUME Ordered, IsChain(packets), NEW r \in Requests, At(r, "commit"), Publish(r),
         EvidenceUntouched(req[r]), Tx(r).packet = <<>>, OneEvent(req[r], Rows)
  PROVE  Case!Audit(1) /\ UNCHANGED <<sources, claim, conflict, packets>>
<1>1. /\ Tx(r).sources = {} /\ Tx(r).claim = NoRows /\ Tx(r).conflict = NoRows
      /\ Tx(r).log = Events(Len(log), 1)
  BY AboutToCommit, RowsAre DEF EvidenceUntouched, OneEvent
<1>2. Case!Audit(1)
  BY <1>1, PublishesEvents
<1>3. packets' = packets
  BY ConcatEmptySeq DEF Publish, IsChain
<1>4. sources' = sources /\ claim' = claim /\ conflict' = conflict
  BY <1>1, PublishedTables
<1> QED
  BY <1>2, <1>3, <1>4

LEMMA VisibleIsCitable ==
  ASSUME NEW by, NEW cited, cited # {}, VisibleIn(Rows, Role[by], cited)
  PROVE  Case!Citable(by, cited)
BY CaseVisibleTo, RowsAre DEF VisibleIn, Case!Citable

LEMMA DraftPublished ==
  ASSUME Ordered, IsChain(packets), NEW r \in Requests, At(r, "commit"), Publish(r),
         Call(r).op = "draft"
  PROVE  Case!Next
<1> DEFINE by    == Call(r).by
           ref   == Call(r).ref
           cited == Call(r).cited
<1>1. /\ Drafting(req[r], held[r], Rows)
      /\ by \in Reviewers /\ ref \in ParagraphRefs /\ cited \in SUBSET Claims /\ cited # {}
  BY AboutToCommit, CallFields DEF Local
<1>2. /\ VisibleIn(Rows, Role[by], cited)
      /\ EvidenceUntouched(req[r]) /\ Tx(r).packet = <<>> /\ OneEvent(req[r], Rows)
  BY <1>1, AboutToCommit DEF Drafting
<1>3. PICK s \in Sections :
        /\ s \notin DOMAIN section
        /\ ParagraphRefFree(section, ref, s)
        /\ Tx(r).section = Only(s, DraftedSection(ref, NextPosition(section), cited))
  BY <1>1, AboutToCommit, RowsAre DEF Drafting
<1>4. section' = Put(section, s, DraftedSection(ref, NextPosition(section), cited))
  BY <1>3, PublishedTables, OverlayOnly
<1>5. section' = Case!Put(section, s, Case!DraftedSection(ref, Case!NextPosition(section), cited))
  BY <1>4, CasePut, CaseDraftedSection, CaseNextPosition
<1>6. Case!Citable(by, cited) /\ Case!ParagraphRefFree(section, ref, s)
  BY <1>1, <1>2, <1>3, VisibleIsCitable, CaseParagraphRefFree
<1>7. Case!DraftSection(by, s, ref, cited)
  BY <1>2, <1>3, <1>5, <1>6, PublishesSection DEF Case!DraftSection
<1> QED
  BY <1>1, <1>3, <1>7 DEF Case!Next

LEMMA RevisePublished ==
  ASSUME Ordered, IsChain(packets), NEW r \in Requests, At(r, "commit"), Publish(r),
         Call(r).op = "revise"
  PROVE  Case!Next
<1> DEFINE by    == Call(r).by
           s     == Call(r).section
           ref   == Call(r).ref
           cited == Call(r).cited
<1>1. /\ Revising(req[r], held[r], Rows) /\ by \in Reviewers /\ s \in Sections
      /\ ref \in ParagraphRefs /\ cited \in SUBSET Claims /\ cited # {}
  BY AboutToCommit, CallFields DEF Local
<1>2. /\ s \in DOMAIN section
      /\ ParagraphRefFree(section, ref, s)
      /\ VisibleIn(Rows, Role[by], cited)
      /\ Tx(r).section = Only(s, Revised(section[s], ref, cited))
      /\ EvidenceUntouched(req[r]) /\ Tx(r).packet = <<>> /\ OneEvent(req[r], Rows)
  BY <1>1, AboutToCommit, RowsAre DEF Revising
<1>3. section' = [section EXCEPT ![s] = Revised(section[s], ref, cited)]
  <2>1. section' = Put(section, s, Revised(section[s], ref, cited))
    BY <1>2, PublishedTables, OverlayOnly
  <2>2. IsTable(section)
    BY DEF Ordered, Tables
  <2> QED
    BY <1>2, <2>1, <2>2, PutUpdates
<1>4. section' = [section EXCEPT ![s] = Case!Revised(section[s], ref, cited)]
  BY <1>3, CaseRevised
<1>5. Case!Citable(by, cited) /\ Case!ParagraphRefFree(section, ref, s)
  BY <1>1, <1>2, VisibleIsCitable, CaseParagraphRefFree
<1>6. Case!ReviseSection(by, s, ref, cited)
  BY <1>2, <1>4, <1>5, PublishesSection DEF Case!ReviseSection
<1> QED
  BY <1>1, <1>6 DEF Case!Next

LEMMA ApprovePublished ==
  ASSUME Ordered, IsChain(packets), NEW r \in Requests, At(r, "commit"), Publish(r),
         Call(r).op = "approve"
  PROVE  Case!Next
<1> DEFINE by == Call(r).by
           s  == Call(r).section
<1>1. Approving(req[r], held[r], Rows) /\ by \in Reviewers /\ s \in Sections
  BY AboutToCommit, CallFields DEF Local
<1>2. /\ s \in DOMAIN section /\ PacketPermitted(Role[by])
      /\ ImpactOf(claim, conflict, section[s].claimIds) \in UsableSectionStatuses
      /\ Tx(r).section = Only(s, ApprovedSection(claim, conflict, section[s]))
      /\ EvidenceUntouched(req[r]) /\ Tx(r).packet = <<>> /\ OneEvent(req[r], Rows)
  BY <1>1, AboutToCommit, RowsAre DEF Approving
<1>3. section' = [section EXCEPT ![s] = ApprovedSection(claim, conflict, section[s])]
  <2>1. section' = Put(section, s, ApprovedSection(claim, conflict, section[s]))
    BY <1>2, PublishedTables, OverlayOnly
  <2>2. IsTable(section)
    BY DEF Ordered, Tables
  <2> QED
    BY <1>2, <2>1, <2>2, PutUpdates
<1>4. section' = [section EXCEPT ![s] = Case!ApprovedSection(claim, conflict, section[s])]
  BY <1>3, CaseApprovedSection
<1>5. /\ Case!PacketPermitted(Role[by])
      /\ Case!ImpactOf(claim, conflict, section[s].claimIds) \in Case!UsableSectionStatuses
  BY <1>2, CasePacketPermitted, CaseImpactOf, CaseUsableSectionStatuses
<1>6. Case!ApproveSection(by, s)
  BY <1>2, <1>4, <1>5, PublishesSection DEF Case!ApproveSection
<1> QED
  BY <1>1, <1>6 DEF Case!Next

LEMMA AppendJoins ==
  ASSUME NEW chain, IsChain(chain), NEW p
  PROVE  chain \o <<p>> = Append(chain, p)
<1>1. chain \in Seq({chain[i] : i \in DOMAIN chain} \cup {p})
  BY DEF IsChain
<1> QED
  BY <1>1, AppendIsConcat

LEMMA PacketPublished ==
  ASSUME Ordered, IsChain(packets), NEW r \in Requests, At(r, "commit"), Publish(r),
         Call(r).op = "packet"
  PROVE  Case!Next
<1> DEFINE by   == Call(r).by
           type == Call(r).type
           key  == Call(r).key
<1>1. /\ Packing(req[r], held[r], Rows)
      /\ by \in Reviewers /\ type \in {"internal", "production"} /\ key \in PacketKeys \cup {NoKey}
  BY AboutToCommit, CallFields DEF Local
<1>2. /\ PacketPermitted(Role[by]) /\ key \notin UsedKeys(packets, NoKey)
      /\ Tx(r).sources = {} /\ Tx(r).claim = NoRows /\ Tx(r).conflict = NoRows
      /\ Tx(r).section = NoRows
      /\ Tx(r).log = Events(Len(log), 1)
      /\ Tx(r).root = Len(log)
      /\ Rendered(req[r], Rows)
  BY <1>1, AboutToCommit, RowsAre DEF Packing, EvidenceUntouched, OneEvent
<1> DEFINE entries == BuildPacket(claim, conflict, section, type)
           p       == [type |-> type, key |-> key, root |-> Len(log), entries |-> entries]
<1>3. Tx(r).packet = <<p>>
  BY <1>2, AboutToCommit, RowsAre DEF Rendered
<1>4. entries = Case!BuildPacket(claim, conflict, section, type)
  BY CaseBuildPacket
<1> HIDE DEF entries
<1>5. packets' = Append(packets, p)
  <2>1. packets' = packets \o <<p>>
    BY <1>3 DEF Publish
  <2> HIDE DEF p
  <2> QED
    BY <2>1, AppendJoins
<1>6. packets' = Append(packets, [type |-> type, key |-> key, root |-> Len(log),
                                  entries |-> Case!BuildPacket(claim, conflict, section, type)])
  BY <1>4, <1>5
<1>7. Case!Audit(1)
  BY <1>2, PublishesEvents
<1>8. UNCHANGED <<sources, claim, conflict, section>>
  BY <1>2, PublishedTables
<1>9. Len(packets) < MaxPackets
  BY RoomLeft
<1>10. Case!PacketPermitted(Role[by]) /\ key \notin Case!UsedKeys(packets, NoKey)
  BY <1>2, CasePacketPermitted, CaseUsedKeys
<1>11. Case!GeneratePacket(by, type, key)
  BY <1>6, <1>7, <1>8, <1>9, <1>10 DEF Case!GeneratePacket
<1>12. type \in Case!PacketTypes
  BY <1>1 DEF Case!PacketTypes
<1> QED
  BY <1>1, <1>11, <1>12 DEF Case!Next

\* What a transaction publishes is one step of EvidenceCase.
LEMMA PublishImplements ==
  ASSUME Ordered, Typed(Rows), IsChain(packets), NEW r \in Requests, At(r, "commit"), Publish(r),
         IndexesHold(ConflictView(r), SectionView(r), packets \o Tx(r).packet)
  PROVE  Case!Next
<1>1. Call(r).op \in {"create", "upload", "flag", "decide", "verify", "draft", "revise",
                      "approve", "packet"}
  BY AboutToCommit, CallFields
<1> QED
  BY <1>1, UploadPublished, CreatePublished, VerifyPublished, FlagPublished, DecidePublished,
     DraftPublished, RevisePublished, ApprovePublished, PacketPublished

-----------------------------------------------------------------------------
(***************************************************************************)
(* The requests keep one another in order from the first state on.         *)
(***************************************************************************)

LEMMA InitRequests ==
  ASSUME Init, NEW r \in Requests
  PROVE  req[r] = Idle /\ held[r] = {}
BY DEF Init

LEMMA InitOrdered == Init => Ordered
<1> SUFFICES ASSUME Init PROVE Ordered
  OBVIOUS
<1>1. /\ Case!RowsTyped(Opening.claim, Opening.conflict, Opening.section)
      /\ IsTable(Opening.claim) /\ IsTable(Opening.conflict) /\ IsTable(Opening.section)
  BY CaseAssumption DEF Case!OpeningAssumption, IsTable
<1>2. /\ claim = Opening.claim /\ conflict = Opening.conflict /\ section = Opening.section
      /\ packets = <<>> /\ log = <<>> /\ decisions = <<>>
  BY DEF Init
<1>3. Shaped
  <2>1. req = [r \in Requests |-> req[r]] /\ held = [r \in Requests |-> held[r]]
    BY DEF Init
  <2> QED
    BY <2>1, InitRequests, IdleIs DEF Shaped
<1>4. Tables
  BY <1>1, <1>2 DEF Tables
<1>5. Orderly
  <2>1. ASSUME NEW M PROVE Local(Idle, {}, M)
    BY IdleIs DEF Local
  <2> QED
    BY <2>1, InitRequests DEF Orderly
<1>6. LocksExclusive
  BY InitRequests DEF LocksExclusive
<1>7. NewIdsApart
  <2>1. \A r \in Requests : Tx(r) = NoChanges
    BY InitRequests, IdleIs DEF Tx
  <2>2. ASSUME NEW table PROVE NewIds(table, NoRows) = {}
    BY NoRowsIs DEF NewIds
  <2> QED
    BY <2>1, <2>2, NoChangesIs DEF NewIdsApart
<1>8. UploadsApart
  BY InitRequests, IdleIs DEF UploadsApart, Call
<1>9. Chained
  BY <1>2 DEF Chained
<1>10. Descended
  <2>1. ASSUME NEW s \in DOMAIN section PROVE section[s].version \in Nat
    BY <1>1, <1>2 DEF Case!RowsTyped, Case!SectionRow
  <2>2. ASSUME NEW x \in revisions
        PROVE  /\ x.section \in DOMAIN section
               /\ x.parent \in Nat /\ x.parent < section[x.section].version
               /\ x.saw = x.parent
               /\ x = [section |-> x.section, number |-> x.parent + 1, parent |-> x.parent,
                       saw |-> x.parent]
    <3>1. PICK s \in DOMAIN section : \E n \in 1 .. section[s].version :
            x = [section |-> s, number |-> n, parent |-> n - 1, saw |-> n - 1]
      BY DEF Init
    <3>2. PICK n \in 1 .. section[s].version :
            x = [section |-> s, number |-> n, parent |-> n - 1, saw |-> n - 1]
      BY <3>1
    <3>3. /\ section[s].version \in Nat /\ n \in Nat /\ n - 1 \in Nat /\ n - 1 < section[s].version
          /\ (n - 1) + 1 = n
      BY <2>1
    <3>4. x.section = s /\ x.number = n /\ x.parent = n - 1 /\ x.saw = n - 1
      BY <3>2
    <3> QED
      BY <3>2, <3>3, <3>4
  <2>3. \A x, y \in revisions : x.section = y.section /\ x.parent = y.parent => x = y
    BY <2>2
  <2> QED
    BY <2>2, <2>3 DEF Descended
<1>11. Counted
  <2>1. Ended = {}
    BY InitRequests, IdleIs DEF Ended, At
  <2>2. Cardinality(Ended) = 0
    BY <2>1, FS_EmptySet
  <2> QED
    BY <1>2, <2>2 DEF Counted
<1> QED
  BY <1>3, <1>4, <1>5, <1>6, <1>7, <1>8, <1>9, <1>10, <1>11 DEF Ordered

\* Every step but the commit of a transaction leaves the committed rows alone.
LEMMA StepKeeps ==
  ASSUME Ordered, Typed(Rows), NEW r \in Requests, Step(r), ~Commit(r)
  PROVE  Ordered' /\ UNCHANGED <<matter, chains>>
<1>1. CASE LockConflict(r) \/ LockNextClaim(r) \/ LockSection(r) \/ LockCatalog(r) \/ LockAudit(r)
  BY <1>1, LockConflictKeeps, LockNextClaimKeeps, LockSectionKeeps, LockCatalogKeeps,
     LockAuditKeeps
<1>2. CASE \/ WriteSource(r) \/ WriteClaim(r) \/ WriteConflict(r)
           \/ WriteAttestation(r) \/ WriteDraft(r) \/ WriteRevision(r)
  BY <1>2, WriteSourceKeeps, WriteClaimKeeps, WriteConflictKeeps, WriteAttestationKeeps,
     WriteDraftKeeps, WriteRevisionKeeps
<1>3. CASE \/ LockSectionForReset(r) \/ ResetSections(r) \/ AppendEvent(r) \/ AppendFlag(r)
           \/ AppendDecision(r) \/ AppendApproval(r)
  BY <1>3, LockSectionForResetKeeps, ResetSectionsKeeps, AppendEventKeeps, AppendFlagKeeps,
     AppendDecisionKeeps, AppendApprovalKeeps
<1>4. CASE \/ LookForReplay(r) \/ ShareAuditLock(r) \/ ReadRoot(r) \/ BuildSnapshot(r)
           \/ ReleaseShared(r) \/ RecordPacket(r) \/ CancelDeadlocked(r)
  BY <1>4, LookForReplayKeeps, ShareAuditLockKeeps, ReadRootKeeps, BuildSnapshotKeeps,
     ReleaseSharedKeeps, RecordPacketKeeps, CancelDeadlockedKeeps
<1> QED
  BY <1>1, <1>2, <1>3, <1>4, Zenon DEF Step

LEMMA CommitKeeps ==
  ASSUME Ordered, Typed(Rows), IsChain(packets), NEW r \in Requests, Commit(r)
  PROVE  Ordered' /\ (Case!Next \/ UNCHANGED <<matter, chains>>)
<1>1. At(r, "commit")
  BY DEF Commit
<1>2. CASE IndexesHold(ConflictView(r), SectionView(r), packets \o Tx(r).packet)
  <2>1. Publish(r)
    BY <1>2 DEF Commit
  <2> QED
    BY <1>1, <1>2, <2>1, PublishKeeps, PublishImplements
<1>3. CASE ~IndexesHold(ConflictView(r), SectionView(r), packets \o Tx(r).packet)
  <2>1. Abort(r, "index violated")
    BY <1>3 DEF Commit
  <2> QED
    BY <2>1, AbortKeeps
<1> QED
  BY <1>2, <1>3

LEMMA OrderedStep ==
  ASSUME Ordered, Typed(Rows), IsChain(packets), [Next]_vars
  PROVE  Ordered' /\ (Case!Next \/ UNCHANGED <<matter, chains>>)
<1>1. CASE UNCHANGED vars
  <2>1. Ordered'
    BY <1>1 DEF vars, matter, chains, locks, Ordered, Shaped, Tables, Orderly, LocksExclusive,
                NewIdsApart, UploadsApart, Chained, Descended, Counted, Ended, At, Call, Tx, Rows
  <2> QED
    BY <1>1, <2>1 DEF vars
<1>2. CASE Next
  <2>1. PICK r \in Requests : (\E call \in Calls : Arrive(r, call)) \/ Step(r) \/ SnapshotFails(r)
    BY <1>2 DEF Next
  <2>2. CASE \E call \in Calls : Arrive(r, call)
    BY <2>2, ArriveKeeps
  <2>3. CASE SnapshotFails(r)
    BY <2>3, SnapshotFailsKeeps
  <2>4. CASE Commit(r)
    BY <2>4, CommitKeeps
  <2>5. CASE Step(r) /\ ~Commit(r)
    BY <2>5, StepKeeps
  <2> QED
    BY <2>1, <2>2, <2>3, <2>4, <2>5
<1> QED
  BY <1>1, <1>2

-----------------------------------------------------------------------------
(***************************************************************************)
(* What is proved of EvidenceCase is proved of Kept, its instance below,   *)
(* which is the same specification as Case.                                *)
(***************************************************************************)

Kept == INSTANCE EvidenceCaseProofs WITH events <- Len(log)

LEMMA KeptInit ==
  Case!Init => Kept!Init
BY DEF Case!Init, Kept!Init

LEMMA KeptIngest ==
  ASSUME NEW r, NEW d
  PROVE  Case!IngestSource(r, d) = Kept!IngestSource(r, d)
BY DEF Case!IngestSource, Case!VisibleTo, Case!HasPrivilegeClearance, Case!SeniorCounsel,
       Case!WithholdingPrivilege, Case!WithdrawApprovals, Case!ResetApprovals, Case!Audit,
       Kept!IngestSource, Kept!VisibleTo, Kept!HasPrivilegeClearance, Kept!SeniorCounsel,
       Kept!WithholdingPrivilege, Kept!WithdrawApprovals, Kept!ResetApprovals, Kept!Audit

LEMMA KeptCreate ==
  ASSUME NEW r, NEW c, NEW d, NEW quote
  PROVE  Case!CreateClaim(r, c, d, quote) = Kept!CreateClaim(r, c, d, quote)
BY DEF Case!CreateClaim, Case!VisibleTo, Case!HasPrivilegeClearance, Case!SeniorCounsel,
       Case!WithholdingPrivilege, Case!Put, Case!ExtractedClaim, Case!ClaimEligibility,
       Case!UnverifiedQuoteStates, Case!WithdrawApprovals, Case!ResetApprovals, Case!Audit,
       Kept!CreateClaim, Kept!VisibleTo, Kept!HasPrivilegeClearance, Kept!SeniorCounsel,
       Kept!WithholdingPrivilege, Kept!Put, Kept!ExtractedClaim, Kept!ClaimEligibility,
       Kept!UnverifiedQuoteStates, Kept!WithdrawApprovals, Kept!ResetApprovals, Kept!Audit

LEMMA KeptVerify ==
  ASSUME NEW r, NEW c
  PROVE  Case!VerifyQuote(r, c) = Kept!VerifyQuote(r, c)
BY DEF Case!VerifyQuote, Case!HasPrivilegeClearance, Case!SeniorCounsel, Case!Attested,
       Case!EligibilityOf, Case!ClaimEligibility, Case!WithholdingPrivilege,
       Case!UnverifiedQuoteStates, Case!RelatedConflicts, Case!ClaimsOf, Case!WithdrawApprovals,
       Case!ResetApprovals, Case!Audit, Kept!VerifyQuote, Kept!HasPrivilegeClearance,
       Kept!SeniorCounsel, Kept!Attested, Kept!EligibilityOf, Kept!ClaimEligibility,
       Kept!WithholdingPrivilege, Kept!UnverifiedQuoteStates, Kept!RelatedConflicts,
       Kept!ClaimsOf, Kept!WithdrawApprovals, Kept!ResetApprovals, Kept!Audit

LEMMA KeptFlag ==
  ASSUME NEW r, NEW k, NEW a, NEW b, NEW severity
  PROVE  Case!FlagConflict(r, k, a, b, severity) = Kept!FlagConflict(r, k, a, b, severity)
BY DEF Case!FlagConflict, Case!VisibleTo, Case!HasPrivilegeClearance, Case!SeniorCounsel,
       Case!WithholdingPrivilege, Case!OtherOpenConflict, Case!OpenConflictStatuses,
       Case!ClaimsOf, Case!Put, Case!FlaggedConflict, Case!RecomputeClaims, Case!Recompute,
       Case!AggregateStatus, Case!Precedence, Case!Disposition, Case!RelatedConflicts,
       Case!EligibilityOf, Case!ClaimEligibility, Case!UnverifiedQuoteStates,
       Case!WithdrawApprovals, Case!ResetApprovals, Case!Audit, Kept!FlagConflict,
       Kept!VisibleTo, Kept!HasPrivilegeClearance, Kept!SeniorCounsel,
       Kept!WithholdingPrivilege, Kept!OtherOpenConflict, Kept!OpenConflictStatuses,
       Kept!ClaimsOf, Kept!Put, Kept!FlaggedConflict, Kept!RecomputeClaims, Kept!Recompute,
       Kept!AggregateStatus, Kept!Precedence, Kept!Disposition, Kept!RelatedConflicts,
       Kept!EligibilityOf, Kept!ClaimEligibility, Kept!UnverifiedQuoteStates,
       Kept!WithdrawApprovals, Kept!ResetApprovals, Kept!Audit

LEMMA KeptDecide ==
  ASSUME NEW r, NEW k, NEW decision, NEW selected
  PROVE  Case!Decide(r, k, decision, selected) = Kept!Decide(r, k, decision, selected)
BY DEF Case!Decide, Case!Decided, Case!TransitionFor, Case!DecisionPermitted,
       Case!DispositiveDecisions, Case!SeniorRoles, Case!SeniorCounsel, Case!VisibleTo,
       Case!HasPrivilegeClearance, Case!WithholdingPrivilege, Case!OpenConflictStatuses,
       Case!OtherOpenConflict, Case!ClaimsOf, Case!DecidedClaims, Case!RecomputeClaims,
       Case!Recompute, Case!AggregateStatus, Case!Precedence, Case!Disposition,
       Case!RelatedConflicts, Case!EligibilityOf, Case!ClaimEligibility,
       Case!UnverifiedQuoteStates, Case!Audit, Case!Cardinality, Case!StandingChanged,
       Case!WithdrawApprovals, Case!ResetApprovals, Kept!Decide, Kept!Decided,
       Kept!TransitionFor, Kept!DecisionPermitted, Kept!DispositiveDecisions, Kept!SeniorRoles,
       Kept!SeniorCounsel, Kept!VisibleTo, Kept!HasPrivilegeClearance,
       Kept!WithholdingPrivilege, Kept!OpenConflictStatuses, Kept!OtherOpenConflict,
       Kept!ClaimsOf, Kept!DecidedClaims, Kept!RecomputeClaims, Kept!Recompute,
       Kept!AggregateStatus, Kept!Precedence, Kept!Disposition, Kept!RelatedConflicts,
       Kept!EligibilityOf, Kept!ClaimEligibility, Kept!UnverifiedQuoteStates, Kept!Audit,
       Kept!Cardinality, Kept!StandingChanged, Kept!WithdrawApprovals, Kept!ResetApprovals

LEMMA KeptDraft ==
  ASSUME NEW r, NEW s, NEW ref, NEW cited
  PROVE  Case!DraftSection(r, s, ref, cited) = Kept!DraftSection(r, s, ref, cited)
BY DEF Case!DraftSection, Case!ParagraphRefFree, Case!Citable, Case!VisibleTo,
       Case!HasPrivilegeClearance, Case!SeniorCounsel, Case!WithholdingPrivilege, Case!Put,
       Case!DraftedSection, Case!DraftRevision, Case!NoEvidence, Case!NextPosition, Case!Max,
       Case!Audit, Kept!DraftSection, Kept!ParagraphRefFree, Kept!Citable, Kept!VisibleTo,
       Kept!HasPrivilegeClearance, Kept!SeniorCounsel, Kept!WithholdingPrivilege, Kept!Put,
       Kept!DraftedSection, Kept!DraftRevision, Kept!NoEvidence, Kept!NextPosition, Kept!Max,
       Kept!Audit

LEMMA KeptRevise ==
  ASSUME NEW r, NEW s, NEW ref, NEW cited
  PROVE  Case!ReviseSection(r, s, ref, cited) = Kept!ReviseSection(r, s, ref, cited)
BY DEF Case!ReviseSection, Case!ParagraphRefFree, Case!Citable, Case!VisibleTo,
       Case!HasPrivilegeClearance, Case!SeniorCounsel, Case!WithholdingPrivilege, Case!Revised,
       Case!DraftRevision, Case!NoEvidence, Case!Audit, Kept!ReviseSection,
       Kept!ParagraphRefFree, Kept!Citable, Kept!VisibleTo, Kept!HasPrivilegeClearance,
       Kept!SeniorCounsel, Kept!WithholdingPrivilege, Kept!Revised, Kept!DraftRevision,
       Kept!NoEvidence, Kept!Audit

LEMMA KeptApprove ==
  ASSUME NEW r, NEW s
  PROVE  Case!ApproveSection(r, s) = Kept!ApproveSection(r, s)
BY DEF Case!ApproveSection, Case!PacketPermitted, Case!SeniorCounsel, Case!ImpactOf,
       Case!SectionImpact, Case!EvidenceClaims, Case!ClosedUnderPreserved, Case!ClaimsOf,
       Case!IsWithholding, Case!WithholdingPrivilege, Case!UsableSectionStatuses,
       Case!ApprovedSection, Case!ApprovedRevision, Case!EvidenceState, Case!RelatedConflicts,
       Case!EvidenceOf, Case!Audit, Kept!ApproveSection, Kept!PacketPermitted,
       Kept!SeniorCounsel, Kept!ImpactOf, Kept!SectionImpact, Kept!EvidenceClaims,
       Kept!ClosedUnderPreserved, Kept!ClaimsOf, Kept!IsWithholding, Kept!WithholdingPrivilege,
       Kept!UsableSectionStatuses, Kept!ApprovedSection, Kept!ApprovedRevision,
       Kept!EvidenceState, Kept!RelatedConflicts, Kept!EvidenceOf, Kept!Audit

LEMMA KeptGenerate ==
  ASSUME NEW r, NEW type, NEW key
  PROVE  Case!GeneratePacket(r, type, key) = Kept!GeneratePacket(r, type, key)
BY DEF Case!GeneratePacket, Case!PacketPermitted, Case!SeniorCounsel, Case!UsedKeys,
       Case!BuildPacket, Case!ProductionEntry, Case!ProductionContent, Case!Approved,
       Case!RevisionApprovalIsCurrent, Case!NoEvidence, Case!EvidenceState, Case!EvidenceClaims,
       Case!ClosedUnderPreserved, Case!ClaimsOf, Case!RelatedConflicts, Case!EvidenceOf,
       Case!ProductionDisposition, Case!ImpactOf, Case!SectionImpact, Case!IsWithholding,
       Case!WithholdingPrivilege, Case!UsableSectionStatuses, Case!Disclosures,
       Case!InternalEntry, Case!Audit, Kept!GeneratePacket, Kept!PacketPermitted,
       Kept!SeniorCounsel, Kept!UsedKeys, Kept!BuildPacket, Kept!ProductionEntry,
       Kept!ProductionContent, Kept!Approved, Kept!RevisionApprovalIsCurrent, Kept!NoEvidence,
       Kept!EvidenceState, Kept!EvidenceClaims, Kept!ClosedUnderPreserved, Kept!ClaimsOf,
       Kept!RelatedConflicts, Kept!EvidenceOf, Kept!ProductionDisposition, Kept!ImpactOf,
       Kept!SectionImpact, Kept!IsWithholding, Kept!WithholdingPrivilege,
       Kept!UsableSectionStatuses, Kept!Disclosures, Kept!InternalEntry, Kept!Audit

LEMMA KeptRows ==
  ASSUME NEW cl, NEW cf, NEW sec
  PROVE  Case!RowsTyped(cl, cf, sec) = Kept!RowsTyped(cl, cf, sec)
BY DEF Case!RowsTyped, Case!ClaimRow, Case!ClaimStatuses, Case!PrivilegeStatuses,
       Case!Eligibilities, Case!QuoteVerifications, Case!ConflictRow, Case!Severities,
       Case!ConflictStatuses, Case!ClaimsOf, Case!SectionRow, Case!IsEvidenceState,
       Kept!RowsTyped, Kept!ClaimRow, Kept!ClaimStatuses, Kept!PrivilegeStatuses,
       Kept!Eligibilities, Kept!QuoteVerifications, Kept!ConflictRow, Kept!Severities,
       Kept!ConflictStatuses, Kept!ClaimsOf, Kept!SectionRow, Kept!IsEvidenceState

LEMMA KeptDispositions ==
  ASSUME NEW cf
  PROVE  Case!DispositionsMatchStatus(cf) = Kept!DispositionsMatchStatus(cf)
BY DEF Case!DispositionsMatchStatus, Case!DispositionsFor, Case!TransitionFor,
       Case!DecisionTypes, Kept!DispositionsMatchStatus, Kept!DispositionsFor,
       Kept!TransitionFor, Kept!DecisionTypes

LEMMA KeptStandings ==
  ASSUME NEW cl, NEW cf
  PROVE  Case!StandingsDerived(cl, cf) = Kept!StandingsDerived(cl, cf)
BY DEF Case!StandingsDerived, Case!StandingDerived, Case!Disposition, Case!RelatedConflicts,
       Case!ClaimsOf, Case!Precedence, Case!EligibilityOf, Case!ClaimEligibility,
       Case!WithholdingPrivilege, Case!UnverifiedQuoteStates, Kept!StandingsDerived,
       Kept!StandingDerived, Kept!Disposition, Kept!RelatedConflicts, Kept!ClaimsOf,
       Kept!Precedence, Kept!EligibilityOf, Kept!ClaimEligibility, Kept!WithholdingPrivilege,
       Kept!UnverifiedQuoteStates

LEMMA KeptDistinct ==
  ASSUME NEW cf
  PROVE  Case!OpenPairsDistinct(cf) = Kept!OpenPairsDistinct(cf)
BY DEF Case!OpenPairsDistinct, Case!OpenConflictStatuses, Case!SamePair, Case!ClaimsOf,
       Kept!OpenPairsDistinct, Kept!OpenConflictStatuses, Kept!SamePair, Kept!ClaimsOf

LEMMA KeptStand ==
  ASSUME NEW cl, NEW cf, NEW sec
  PROVE  Case!ApprovalsStand(cl, cf, sec) = Kept!ApprovalsStand(cl, cf, sec)
BY DEF Case!ApprovalsStand, Case!RevisionApprovalIsCurrent, Case!NoEvidence, Case!EvidenceState,
       Case!EvidenceClaims, Case!ClosedUnderPreserved, Case!ClaimsOf, Case!RelatedConflicts,
       Case!EvidenceOf, Case!ImpactOf, Case!SectionImpact, Case!IsWithholding,
       Case!WithholdingPrivilege, Case!UsableSectionStatuses, Kept!ApprovalsStand,
       Kept!RevisionApprovalIsCurrent, Kept!NoEvidence, Kept!EvidenceState, Kept!EvidenceClaims,
       Kept!ClosedUnderPreserved, Kept!ClaimsOf, Kept!RelatedConflicts, Kept!EvidenceOf,
       Kept!ImpactOf, Kept!SectionImpact, Kept!IsWithholding, Kept!WithholdingPrivilege,
       Kept!UsableSectionStatuses

LEMMA KeptAttested ==
  ASSUME NEW cl
  PROVE  Case!AttestationsIndependent(cl) = Kept!AttestationsIndependent(cl)
BY DEF Case!AttestationsIndependent, Case!HasPrivilegeClearance, Case!SeniorCounsel,
       Kept!AttestationsIndependent, Kept!HasPrivilegeClearance, Kept!SeniorCounsel

LEMMA KeptParagraphs ==
  ASSUME NEW sec
  PROVE  Case!ParagraphsDistinct(sec) = Kept!ParagraphsDistinct(sec)
BY DEF Case!ParagraphsDistinct, Kept!ParagraphsDistinct

LEMMA KeptLast ==
  ASSUME NEW sec
  PROVE  Case!HasLastSection(sec) = Kept!HasLastSection(sec)
BY DEF Case!HasLastSection, Kept!HasLastSection

LEMMA KeptPairs ==
  Case!OneOpenConflictPerPair = Kept!OneOpenConflictPerPair
BY DEF Case!OneOpenConflictPerPair, Case!OpenPairsDistinct, Case!OpenConflictStatuses,
       Case!SamePair, Case!ClaimsOf, Kept!OneOpenConflictPerPair, Kept!OpenPairsDistinct,
       Kept!OpenConflictStatuses, Kept!SamePair, Kept!ClaimsOf

LEMMA KeptApprovals ==
  Case!ApprovalStandsOnCurrentEvidence = Kept!ApprovalStandsOnCurrentEvidence
BY DEF Case!ApprovalStandsOnCurrentEvidence, Case!ApprovalsStand,
       Case!RevisionApprovalIsCurrent, Case!NoEvidence, Case!EvidenceState, Case!EvidenceClaims,
       Case!ClosedUnderPreserved, Case!ClaimsOf, Case!RelatedConflicts, Case!EvidenceOf,
       Case!ImpactOf, Case!SectionImpact, Case!IsWithholding, Case!WithholdingPrivilege,
       Case!UsableSectionStatuses, Kept!ApprovalStandsOnCurrentEvidence, Kept!ApprovalsStand,
       Kept!RevisionApprovalIsCurrent, Kept!NoEvidence, Kept!EvidenceState, Kept!EvidenceClaims,
       Kept!ClosedUnderPreserved, Kept!ClaimsOf, Kept!RelatedConflicts, Kept!EvidenceOf,
       Kept!ImpactOf, Kept!SectionImpact, Kept!IsWithholding, Kept!WithholdingPrivilege,
       Kept!UsableSectionStatuses

LEMMA KeptEntry ==
  ASSUME NEW cl, NEW cf, NEW row
  PROVE  Case!ProductionEntry(cl, cf, row) = Kept!ProductionEntry(cl, cf, row)
BY Zenon DEF Case!ProductionEntry, Case!ProductionContent, Case!Approved,
       Case!RevisionApprovalIsCurrent, Case!NoEvidence, Case!EvidenceState, Case!EvidenceClaims,
       Case!ClosedUnderPreserved, Case!ClaimsOf, Case!RelatedConflicts, Case!EvidenceOf,
       Case!ProductionDisposition, Case!ImpactOf, Case!SectionImpact, Case!IsWithholding,
       Case!WithholdingPrivilege, Case!UsableSectionStatuses, Case!Disclosures,
       Kept!ProductionEntry, Kept!ProductionContent, Kept!Approved,
       Kept!RevisionApprovalIsCurrent, Kept!NoEvidence, Kept!EvidenceState, Kept!EvidenceClaims,
       Kept!ClosedUnderPreserved, Kept!ClaimsOf, Kept!RelatedConflicts, Kept!EvidenceOf,
       Kept!ProductionDisposition, Kept!ImpactOf, Kept!SectionImpact, Kept!IsWithholding,
       Kept!WithholdingPrivilege, Kept!UsableSectionStatuses, Kept!Disclosures

LEMMA KeptCandour == Kept!ProductionIsCandid => Case!ProductionIsCandid
BY KeptEntry DEF Case!ProductionIsCandid, Case!RelatedConflicts, Case!ClaimsOf,
       Case!Disposition, Case!OpenConflictStatuses, Case!UnverifiedQuoteStates,
       Kept!ProductionIsCandid, Kept!RelatedConflicts, Kept!ClaimsOf, Kept!Disposition,
       Kept!OpenConflictStatuses, Kept!UnverifiedQuoteStates

\* The constants are as EvidenceCase wants them.
LEMMA KeptConstants ==
  /\ Role \in [Reviewers -> Kept!ReviewerRoles]
  /\ NoReviewer \notin Reviewers
  /\ Privilege \in [Sources -> Kept!PrivilegeStatuses]
  /\ NoKey \notin PacketKeys
  /\ SeverityChoices \subseteq Kept!Severities
  /\ QuoteChoices \subseteq Kept!QuoteOutcomes
  /\ MaxPackets \in Nat
  /\ MaxEvents \in Nat
BY CaseAssumption DEF Case!ConstantsAssumption, Case!ReviewerRoles, Kept!ReviewerRoles,
     Case!SeniorCounsel, Kept!SeniorCounsel, Case!PrivilegeStatuses, Kept!PrivilegeStatuses,
     Case!Severities, Kept!Severities, Case!QuoteOutcomes, Kept!QuoteOutcomes

LEMMA KeptOpening ==
  /\ Opening.sources \subseteq Sources
  /\ Kept!RowsTyped(Opening.claim, Opening.conflict, Opening.section)
  /\ Kept!DispositionsMatchStatus(Opening.conflict)
  /\ Kept!StandingsDerived(Opening.claim, Opening.conflict)
  /\ Kept!OpenPairsDistinct(Opening.conflict)
  /\ Kept!ApprovalsStand(Opening.claim, Opening.conflict, Opening.section)
  /\ Kept!AttestationsIndependent(Opening.claim)
  /\ Kept!ParagraphsDistinct(Opening.section)
  /\ Kept!HasLastSection(Opening.section)
BY CaseAssumption, KeptRows, KeptDispositions, KeptStandings, KeptDistinct, KeptStand,
   KeptAttested, KeptParagraphs, KeptLast DEF Case!OpeningAssumption

LEMMA KeptNext == Case!Next => Kept!Next
<1>1. Case!DecisionTypes = Kept!DecisionTypes /\ Case!PacketTypes = Kept!PacketTypes
  BY DEF Case!DecisionTypes, Kept!DecisionTypes, Case!PacketTypes, Kept!PacketTypes
<1> QED
  BY <1>1, KeptIngest, KeptCreate, KeptVerify, KeptFlag, KeptDecide, KeptDraft, KeptRevise,
     KeptApprove, KeptGenerate, Zenon DEF Case!Next, Kept!Next

LEMMA KeptTyped == Kept!Typed => Typed(Rows) /\ IsChain(packets)
<1> SUFFICES ASSUME Kept!Typed PROVE Typed(Rows) /\ IsChain(packets)
  OBVIOUS
<1>1. Kept!RowsTyped(claim, conflict, section)
  BY DEF Kept!Typed, Kept!TypeOK
<1>2. Typed(Rows)
  BY <1>1, KeptRows, RowsAre DEF Typed
<1>3. IsChain(packets)
  BY DEF Kept!Typed, Kept!TypeOK, Kept!PacketsTyped, IsChain
<1> QED
  BY <1>2, <1>3

-----------------------------------------------------------------------------
(***************************************************************************)
(* The theorems.                                                           *)
(***************************************************************************)

\* The invariant that carries the refinement: the requests are in order, and the
\* committed rows are well typed.
IInv == Ordered /\ Kept!Typed

LEMMA IInvInit == Init => IInv
<1>1. Init => Case!Init
  BY DEF Init, Case!Init
<1>2. Case!Init => Kept!Typed
  BY KeptInit, KeptConstants, KeptOpening, Kept!TypedInit
<1> QED
  BY <1>1, <1>2, InitOrdered DEF IInv

\* Every step is a step of EvidenceCase, or leaves the committed rows as they are.
LEMMA IInvStep ==
  ASSUME IInv, [Next]_vars
  PROVE  IInv' /\ (Case!Next \/ UNCHANGED <<matter, chains>>)
<1>1. Typed(Rows) /\ IsChain(packets)
  BY KeptTyped DEF IInv
<1>2. Ordered' /\ (Case!Next \/ UNCHANGED <<matter, chains>>)
  BY <1>1, OrderedStep DEF IInv
<1>3. [Kept!Next]_(Kept!vars)
  BY <1>2, KeptNext DEF matter, chains, Kept!vars
<1>4. Kept!Typed'
  BY <1>3, KeptConstants, KeptOpening, Kept!TypedStep DEF IInv
<1> QED
  BY <1>2, <1>4 DEF IInv

LEMMA Invariance == Spec => []IInv
<1>1. IInv /\ [Next]_vars => IInv'
  BY IInvStep
<1> QED
  BY <1>1, IInvInit, PTL DEF Spec

\* The transactions implement EvidenceCase (ImplementsEvidenceCase): whatever locks they
\* wait for and whatever they read in between, what becomes visible is one whole
\* operation, as if it ran alone (the services of services.py under READ COMMITTED).
THEOREM TransactionsImplement == Spec => ImplementsEvidenceCase
<1>1. Init => Case!Init
  BY DEF Init, Case!Init
<1>2. IInv /\ [Next]_vars => [Case!Next]_(Case!vars)
  <2>1. UNCHANGED <<matter, chains>> => UNCHANGED Case!vars
    BY DEF matter, chains, Case!vars
  <2> QED
    BY <2>1, IInvStep
<1> QED
  BY <1>1, <1>2, Invariance, PTL DEF Spec, ImplementsEvidenceCase, Case!Spec

LEMMA OrderedIsSafe == Ordered => ChainsNeverFork /\ NothingOverwrittenUnseen
<1> SUFFICES ASSUME Ordered PROVE ChainsNeverFork /\ NothingOverwrittenUnseen
  OBVIOUS
<1>1. DOMAIN log = 1 .. Len(log) /\ DOMAIN decisions = 1 .. Len(decisions)
  <2>1. /\ log \in Seq([prev : Nat])
        /\ decisions \in Seq([conflict : Conflicts, saw : Nat, prev : Nat])
    BY DEF Ordered, Chained
  <2> QED
    BY <2>1, LenProperties, Zenon
<1> QED
  BY <1>1 DEF Ordered, Chained, Descended, ChainsNeverFork, NothingOverwrittenUnseen

\* The chains of audit events, decisions and revisions never fork (ChainsNeverFork):
\* every new link extends the last one (_append_audit).
THEOREM ChainsCorrect == Spec => []ChainsNeverFork
<1>1. IInv => ChainsNeverFork
  BY OrderedIsSafe DEF IInv
<1> QED
  BY <1>1, Invariance, PTL

\* No reviewer replaces what another wrote since and they have not seen
\* (NothingOverwrittenUnseen, _check_expected_version).
THEOREM NothingUnseenOverwritten == Spec => []NothingOverwrittenUnseen
<1>1. IInv => NothingOverwrittenUnseen
  BY OrderedIsSafe DEF IInv
<1> QED
  BY <1>1, Invariance, PTL

-----------------------------------------------------------------------------
(***************************************************************************)
(* The checks of an operation, under its locks, come before the indexes.   *)
(***************************************************************************)

PairsApart(cf) ==
  \A j, k \in DOMAIN cf :
    /\ {cf[j].status, cf[k].status} \subseteq OpenConflictStatuses
    /\ SamePair(cf[j], cf[k])
    => j = k

RefsApart(sec) == \A s, t \in DOMAIN sec : sec[s].paragraphRef = sec[t].paragraphRef => s = t

KeysApart(arts) ==
  \A i, j \in DOMAIN arts : arts[i].key = arts[j].key /\ arts[i].key # NoKey => i = j

LEMMA IndexesAre ==
  ASSUME NEW cf, NEW sec, NEW arts
  PROVE  IndexesHold(cf, sec, arts) <=> PairsApart(cf) /\ RefsApart(sec) /\ KeysApart(arts)
BY DEF IndexesHold, PairsApart, RefsApart, KeysApart

LEMMA FlagKeepsApart ==
  ASSUME NEW cf, PairsApart(cf), NEW k, k \notin DOMAIN cf, NEW a, NEW b,
         ~OtherOpenConflict(cf, a, b, k), NEW v
  PROVE  PairsApart(Put(cf, k, FlaggedConflict(a, b, v)))
<1> DEFINE new == FlaggedConflict(a, b, v)
           f   == Put(cf, k, new)
<1>1. ClaimsOf(new) = {a, b}
  BY FlaggedIs
<1> HIDE DEF new
<1>2. DOMAIN f = DOMAIN cf \cup {k} /\ f[k] = new /\ \A j \in DOMAIN cf : f[j] = cf[j]
  BY DEF Put
<1> HIDE DEF f
<1>3. ASSUME NEW i \in DOMAIN f, NEW j \in DOMAIN f,
             {f[i].status, f[j].status} \subseteq OpenConflictStatuses, SamePair(f[i], f[j])
      PROVE  i = j
  <2>1. f[i].status \in OpenConflictStatuses /\ f[j].status \in OpenConflictStatuses
        /\ ClaimsOf(f[i]) = ClaimsOf(f[j])
    BY <1>3 DEF SamePair
  <2>2. CASE i \in DOMAIN cf /\ j \in DOMAIN cf
    BY <1>2, <1>3, <2>2 DEF PairsApart
  <2>3. CASE i = k /\ j \in DOMAIN cf
    BY <1>1, <1>2, <2>1, <2>3 DEF OtherOpenConflict
  <2>4. CASE i \in DOMAIN cf /\ j = k
    BY <1>1, <1>2, <2>1, <2>4 DEF OtherOpenConflict
  <2> QED
    BY <1>2, <2>2, <2>3, <2>4
<1> QED
  BY <1>3 DEF PairsApart, f, new

LEMMA SameRefsApart ==
  ASSUME NEW old, NEW new, RefsApart(old), DOMAIN new = DOMAIN old,
         \A s \in DOMAIN old : new[s].paragraphRef = old[s].paragraphRef
  PROVE  RefsApart(new)
BY DEF RefsApart

LEMMA PutKeepsRefsApart ==
  ASSUME NEW sec, RefsApart(sec), NEW s, NEW row, ParagraphRefFree(sec, row.paragraphRef, s)
  PROVE  RefsApart(Put(sec, s, row))
<1> DEFINE f == Put(sec, s, row)
<1>1. DOMAIN f = DOMAIN sec \cup {s} /\ f[s] = row /\ \A t \in DOMAIN sec : t # s => f[t] = sec[t]
  BY DEF Put
<1> HIDE DEF f
<1>2. \A t \in DOMAIN sec \ {s} : sec[t].paragraphRef # row.paragraphRef
  BY DEF ParagraphRefFree
<1>3. RefsApart(f)
  BY <1>1, <1>2 DEF RefsApart
<1> QED
  BY <1>3 DEF f

LEMMA JoinKeepsKeysApart ==
  ASSUME NEW arts, IsChain(arts), KeysApart(arts), NEW p, p.key \notin UsedKeys(arts, NoKey)
  PROVE  KeysApart(arts \o <<p>>)
<1> DEFINE new == arts \o <<p>>
<1>1. PICK S : arts \in Seq(S)
  BY DEF IsChain
<1>2. arts \in Seq(S \cup {p}) /\ <<p>> \in Seq(S \cup {p}) /\ Len(<<p>>) = 1 /\ <<p>>[1] = p
  BY <1>1
<1>3. /\ new \in Seq(S \cup {p}) /\ Len(new) = Len(arts) + 1
      /\ \A i \in 1 .. Len(arts) + 1 : new[i] = IF i <= Len(arts) THEN arts[i] ELSE <<p>>[i - Len(arts)]
  BY <1>2, ConcatProperties
<1>4. DOMAIN arts = 1 .. Len(arts) /\ DOMAIN new = 1 .. Len(arts) + 1 /\ Len(arts) \in Nat
  BY <1>1, <1>3, LenProperties
<1> HIDE DEF new
<1>5. new[Len(arts) + 1] = p /\ \A i \in DOMAIN arts : i \in DOMAIN new /\ new[i] = arts[i]
  BY <1>2, <1>3, <1>4
<1>6. \A i \in DOMAIN new : i \in DOMAIN arts \/ i = Len(arts) + 1
  BY <1>4
<1>7. \A i \in DOMAIN arts : arts[i].key # NoKey => arts[i].key # p.key
  BY DEF UsedKeys
<1>8. KeysApart(new)
  BY <1>5, <1>6, <1>7 DEF KeysApart
<1> QED
  BY <1>8 DEF new

\* Whatever a transaction does but decide, the indexes accept it.
LEMMA IndexesAccept ==
  ASSUME Ordered, Typed(Rows), IsChain(packets), IndexesHold(conflict, section, packets),
         NEW r \in Requests, At(r, "commit"), Call(r).op # "decide"
  PROVE  IndexesHold(ConflictView(r), SectionView(r), packets \o Tx(r).packet)
<1>1. PairsApart(conflict) /\ RefsApart(section) /\ KeysApart(packets)
  BY IndexesAre
<1>2. IsTable(claim) /\ IsTable(conflict) /\ IsTable(section)
  BY DEF Ordered, Tables
<1>3. Call(r).op \in {"create", "upload", "flag", "verify", "draft", "revise", "approve", "packet"}
  BY AboutToCommit, CallFields
<1>4. Tx(r).conflict = NoRows => PairsApart(ConflictView(r))
  BY <1>1, <1>2, OverlaySame DEF ConflictView
<1>5. Tx(r).packet = <<>> => KeysApart(packets \o Tx(r).packet)
  BY <1>1, ConcatEmptySeq DEF IsChain
<1>6. ASSUME NEW n, Audited(req[r], held[r], Rows, n)
      PROVE  RefsApart(SectionView(r)) /\ Tx(r).packet = <<>>
  <2>1. Tx(r).section = ResetApprovals(section, DOMAIN section) /\ Tx(r).packet = <<>>
    BY <1>6, RowsAre DEF Audited, Late, At, Tx
  <2>2. SectionView(r) = ResetApprovals(section, DOMAIN section)
    BY <2>1, OverlayReset DEF SectionView
  <2>3. DOMAIN ResetApprovals(section, DOMAIN section) = DOMAIN section
    BY DEF ResetApprovals
  <2>4. \A s \in DOMAIN section :
          ResetApprovals(section, DOMAIN section)[s].paragraphRef = section[s].paragraphRef
    BY ResetKeeps, RowsAre
  <2> QED
    BY <1>1, <2>1, <2>2, <2>3, <2>4, SameRefsApart
<1>7. CASE Call(r).op \in {"create", "upload", "verify"}
  <2>1. Tx(r).conflict = NoRows /\ \E n : Audited(req[r], held[r], Rows, n)
    BY <1>7, AboutToCommit DEF Local, Uploading, Creating, Verifying
  <2> QED
    BY <1>4, <1>5, <1>6, <2>1, IndexesAre
<1>8. CASE Call(r).op = "flag"
  <2>1. Flagging(req[r], held[r], Rows)
    BY <1>8, AboutToCommit DEF Local
  <2>2. \E n : Audited(req[r], held[r], Rows, n)
    BY <2>1, AboutToCommit DEF Flagging
  <2>3. PICK k \in Conflicts :
          /\ k \notin DOMAIN conflict
          /\ ~OtherOpenConflict(conflict, Call(r).a, Call(r).b, k)
          /\ Tx(r).conflict = Only(k, FlaggedConflict(Call(r).a, Call(r).b, Call(r).severity))
    BY <2>1, AboutToCommit, RowsAre DEF Flagging
  <2>4. PairsApart(ConflictView(r))
    BY <1>1, <2>3, FlagKeepsApart, OverlayOnly DEF ConflictView
  <2> QED
    BY <1>5, <1>6, <2>2, <2>4, IndexesAre
<1>9. ASSUME NEW s, NEW row, Tx(r).section = Only(s, row), ParagraphRefFree(section, row.paragraphRef, s)
      PROVE  RefsApart(SectionView(r))
  BY <1>1, <1>9, PutKeepsRefsApart, OverlayOnly DEF SectionView
<1>10. CASE Call(r).op = "draft"
  <2>1. Drafting(req[r], held[r], Rows)
    BY <1>10, AboutToCommit DEF Local
  <2>2. Tx(r).conflict = NoRows /\ Tx(r).packet = <<>>
    BY <2>1, AboutToCommit DEF Drafting, EvidenceUntouched
  <2>3. PICK s \in Sections :
          /\ ParagraphRefFree(section, Call(r).ref, s)
          /\ Tx(r).section = Only(s, DraftedSection(Call(r).ref, NextPosition(section), Call(r).cited))
    BY <2>1, AboutToCommit, RowsAre DEF Drafting
  <2>4. DraftedSection(Call(r).ref, NextPosition(section), Call(r).cited).paragraphRef = Call(r).ref
    BY DEF DraftedSection
  <2> QED
    BY <1>4, <1>5, <1>9, <2>2, <2>3, <2>4, IndexesAre
<1>11. ASSUME NEW s \in DOMAIN section
       PROVE  section[s] \in Case!SectionRow(section[s].revision.evidence)
  BY RowsAre DEF Typed, Case!RowsTyped
<1>12. CASE Call(r).op = "revise"
  <2> DEFINE s   == Call(r).section
             row == Revised(section[s], Call(r).ref, Call(r).cited)
  <2>1. Revising(req[r], held[r], Rows)
    BY <1>12, AboutToCommit DEF Local
  <2>2. /\ Tx(r).conflict = NoRows /\ Tx(r).packet = <<>> /\ s \in DOMAIN section
        /\ ParagraphRefFree(section, Call(r).ref, s) /\ Tx(r).section = Only(s, row)
    BY <2>1, AboutToCommit, RowsAre DEF Revising, EvidenceUntouched
  <2>3. row.paragraphRef = Call(r).ref
    BY <1>11, <2>2, RevisedKeeps
  <2> QED
    BY <1>4, <1>5, <1>9, <2>2, <2>3, IndexesAre
<1>13. CASE Call(r).op = "approve"
  <2> DEFINE s   == Call(r).section
             row == ApprovedSection(claim, conflict, section[s])
  <2>1. Approving(req[r], held[r], Rows)
    BY <1>13, AboutToCommit DEF Local
  <2>2. /\ Tx(r).conflict = NoRows /\ Tx(r).packet = <<>> /\ s \in DOMAIN section
        /\ Tx(r).section = Only(s, row)
    BY <2>1, AboutToCommit, RowsAre DEF Approving, EvidenceUntouched
  <2>3. row.paragraphRef = section[s].paragraphRef
    BY <1>11, <2>2, ApprovedKeeps
  <2>4. ParagraphRefFree(section, section[s].paragraphRef, s)
    BY <1>1, <2>2 DEF RefsApart, ParagraphRefFree
  <2> QED
    BY <1>4, <1>5, <1>9, <2>2, <2>3, <2>4, IndexesAre
<1>14. CASE Call(r).op = "packet"
  <2>1. Packing(req[r], held[r], Rows)
    BY <1>14, AboutToCommit DEF Local
  <2>2. /\ Tx(r).conflict = NoRows /\ Tx(r).section = NoRows
        /\ Call(r).key \notin UsedKeys(packets, NoKey)
    BY <2>1, AboutToCommit, RowsAre DEF Packing, EvidenceUntouched
  <2>3. PICK p : Tx(r).packet = <<p>> /\ p.key = Call(r).key
    <3>1. Rendered(req[r], Rows)
      BY <2>1, AboutToCommit DEF Packing
    <3>2. PICK entries : Tx(r).packet = <<[type |-> Call(r).type, key |-> Call(r).key,
                                           root |-> Tx(r).root, entries |-> entries]>>
      BY <3>1, AboutToCommit DEF Rendered
    <3>3. PICK p : p = [type |-> Call(r).type, key |-> Call(r).key, root |-> Tx(r).root,
                        entries |-> entries]
      OBVIOUS
    <3>4. Tx(r).packet = <<p>>
      BY <3>2, <3>3
    <3>5. p.key = Call(r).key
      BY <3>3
    <3> QED
      BY <3>4, <3>5
  <2>4. KeysApart(packets \o Tx(r).packet)
    BY <1>1, <2>2, <2>3, JoinKeepsKeysApart
  <2>5. RefsApart(SectionView(r))
    BY <1>1, <1>2, <2>2, OverlaySame DEF SectionView
  <2> QED
    BY <1>4, <2>2, <2>4, <2>5, IndexesAre
<1> QED
  BY <1>3, <1>7, <1>8, <1>10, <1>12, <1>13, <1>14

\* What a step makes of the reply of the request that takes it.
ReplyKept(r) ==
  /\ \A q \in Requests : q # r => req'[q] = req[q]
  /\ req'[r].call = req[r].call
  /\ req'[r].reply = req[r].reply \/ req'[r].reply # "index violated"

LEMMA SameReply ==
  ASSUME Shaped, NEW r \in Requests, UNCHANGED req
  PROVE  ReplyKept(r)
BY DEF ReplyKept

LEMMA GotoReply ==
  ASSUME Shaped, NEW r \in Requests, NEW l, Goto(r, l)
  PROVE  ReplyKept(r)
BY DEF Shaped, IsRequest, HasFields, Goto, ReplyKept

LEMMA ChangeReply ==
  ASSUME Shaped, NEW r \in Requests, NEW tx, NEW l, Change(r, tx, l)
  PROVE  ReplyKept(r)
BY DEF Shaped, IsRequest, HasFields, Change, ReplyKept

LEMMA AbortReply ==
  ASSUME Shaped, NEW r \in Requests, NEW reply, Abort(r, reply)
  PROVE  /\ \A q \in Requests : q # r => req'[q] = req[q]
         /\ req'[r].call = req[r].call /\ req'[r].reply = reply
<1>1. req' = [q \in Requests |-> IF q = r THEN OverWith(req[r], reply) ELSE req[q]]
  BY DEF Abort, OverWith, Call, Shaped
<1>2. OverWith(req[r], reply).call = req[r].call /\ OverWith(req[r], reply).reply = reply
  BY IdleIs DEF OverWith, IsRequest, HasFields
<1> QED
  BY <1>1, <1>2

LEMMA OtherReply ==
  ASSUME Shaped, NEW r \in Requests, NEW reply, Abort(r, reply), reply # "index violated"
  PROVE  ReplyKept(r)
BY AbortReply DEF ReplyKept

LEMMA StepReply ==
  ASSUME Shaped, NEW r \in Requests, Step(r) \/ SnapshotFails(r), ~Commit(r)
  PROVE  ReplyKept(r)
<1>1. CASE LockConflict(r)
  BY <1>1, OtherReply, GotoReply DEF LockConflict
<1>2. CASE LockNextClaim(r) \/ LockCatalog(r) \/ LockAudit(r)
  BY <1>2, GotoReply DEF LockNextClaim, LockCatalog, LockAudit
<1>3. CASE LockSection(r)
  BY <1>3, OtherReply, GotoReply DEF LockSection
<1>4. CASE WriteSource(r) \/ WriteClaim(r)
  BY <1>4, ChangeReply DEF WriteSource, WriteClaim
<1>5. CASE WriteConflict(r)
  BY <1>5, OtherReply, ChangeReply DEF WriteConflict
<1>6. CASE WriteAttestation(r)
  BY <1>6, OtherReply, ChangeReply DEF WriteAttestation
<1>7. CASE WriteDraft(r)
  BY <1>7, OtherReply, ChangeReply DEF WriteDraft
<1>8. CASE WriteRevision(r)
  BY <1>8, OtherReply, ChangeReply DEF WriteRevision
<1>9. CASE LockSectionForReset(r)
  BY <1>9, SameReply DEF LockSectionForReset
<1>10. CASE ResetSections(r) \/ AppendEvent(r) \/ AppendFlag(r) \/ AppendDecision(r)
  BY <1>10, ChangeReply DEF ResetSections, AppendEvent, AppendFlag, AppendDecision
<1>11. CASE AppendApproval(r)
  BY <1>11, OtherReply, ChangeReply DEF AppendApproval
<1>12. CASE LookForReplay(r)
  BY <1>12, OtherReply, GotoReply DEF LookForReplay, Replay
<1>13. CASE ShareAuditLock(r) \/ ReleaseShared(r)
  BY <1>13, GotoReply DEF ShareAuditLock, ReleaseShared
<1>14. CASE ReadRoot(r) \/ BuildSnapshot(r)
  BY <1>14, ChangeReply DEF ReadRoot, BuildSnapshot
<1>15. CASE RecordPacket(r)
  BY <1>15, OtherReply, ChangeReply DEF RecordPacket, Replay
<1>16. CASE CancelDeadlocked(r) \/ SnapshotFails(r)
  BY <1>16, OtherReply DEF CancelDeadlocked, SnapshotFails
<1> QED
  BY <1>1, <1>2, <1>3, <1>4, <1>5, <1>6, <1>7, <1>8, <1>9, <1>10, <1>11, <1>12, <1>13, <1>14,
     <1>15, <1>16, Zenon DEF Step

\* The unique indexes hold, and only a decision was ever told that they would not.
Indexed == IndexesHold(conflict, section, packets) /\ ChecksComeBeforeIndexes

LEMMA IndexedInit == Init => Indexed
<1> SUFFICES ASSUME Init PROVE Indexed
  OBVIOUS
<1>1. /\ Case!OpenPairsDistinct(Opening.conflict) /\ Case!ParagraphsDistinct(Opening.section)
      /\ conflict = Opening.conflict /\ section = Opening.section /\ packets = <<>>
  BY CaseAssumption DEF Case!OpeningAssumption, Init
<1>2. PairsApart(conflict)
  BY <1>1, CaseOpenConflictStatuses
  DEF PairsApart, Case!OpenPairsDistinct, SamePair, Case!SamePair, ClaimsOf, Case!ClaimsOf
<1>3. RefsApart(section)
  BY <1>1 DEF RefsApart, Case!ParagraphsDistinct
<1>4. KeysApart(packets)
  BY <1>1 DEF KeysApart
<1>5. ChecksComeBeforeIndexes
  <2>1. Idle.reply = "none"
    BY DEF Idle
  <2> QED
    BY <2>1, InitRequests DEF ChecksComeBeforeIndexes
<1> QED
  BY <1>2, <1>3, <1>4, <1>5, IndexesAre DEF Indexed

LEMMA IndexedStep ==
  ASSUME IInv, Indexed, [Next]_vars
  PROVE  Indexed'
<1>1. Ordered /\ Shaped /\ Typed(Rows) /\ IsChain(packets)
  BY KeptTyped DEF IInv, Ordered
<1>2. \A q \in Requests : req[q].reply = "index violated" => req[q].call.op = "decide"
  BY DEF Indexed, ChecksComeBeforeIndexes, Call
<1>3. ASSUME NEW r \in Requests, ReplyKept(r)
      PROVE  ChecksComeBeforeIndexes'
  <2>1. \A q \in Requests : req'[q].reply = "index violated" => req'[q].call.op = "decide"
    BY <1>2, <1>3 DEF ReplyKept
  <2> QED
    BY <2>1 DEF ChecksComeBeforeIndexes, Call
<1>4. UNCHANGED <<matter, chains>> => IndexesHold(conflict, section, packets)'
  BY DEF Indexed, matter, IndexesHold
<1>5. CASE UNCHANGED vars
  BY <1>5 DEF vars, matter, Indexed, IndexesHold, ChecksComeBeforeIndexes, Call
<1>6. ASSUME NEW r \in Requests, \E call \in Calls : Arrive(r, call)
      PROVE  Indexed'
  <2>1. req[r] = Idle /\ Idle.reply = "none" /\ IsRequest(req[r])
    BY <1>1, <1>6 DEF Ordered, Shaped, Arrive, At, Idle
  <2>2. req'[r].reply = "none" /\ \A q \in Requests : q # r => req'[q] = req[q]
    BY <1>1, <1>6, <2>1 DEF Arrive, Shaped, IsRequest, HasFields
  <2>3. \A q \in Requests : req'[q].reply = "index violated" => req'[q].call.op = "decide"
    BY <1>2, <2>2
  <2>4. UNCHANGED <<matter, chains>>
    BY <1>6 DEF Arrive
  <2> QED
    BY <1>4, <2>3, <2>4 DEF Indexed, ChecksComeBeforeIndexes, Call
<1>7. ASSUME NEW r \in Requests, Step(r) \/ SnapshotFails(r), ~Commit(r)
      PROVE  Indexed'
  <2>1. UNCHANGED <<matter, chains>>
    BY <1>1, <1>7, StepKeeps, SnapshotFailsKeeps
  <2> QED
    BY <1>1, <1>3, <1>4, <1>7, <2>1, StepReply DEF Indexed
<1>8. ASSUME NEW r \in Requests, Commit(r)
      PROVE  Indexed'
  <2>1. At(r, "commit")
    BY <1>8 DEF Commit
  <2>2. CASE IndexesHold(ConflictView(r), SectionView(r), packets \o Tx(r).packet)
    <3>1. Publish(r)
      BY <1>8, <2>2 DEF Commit
    <3>2. IndexesHold(conflict, section, packets)'
      BY <2>2, <3>1 DEF Publish, IndexesHold
    <3>3. ReplyKept(r)
      <4>1. /\ \A q \in Requests : q # r => req'[q] = req[q]
            /\ req'[r].call = req[r].call
        BY <1>1, <3>1, PublishedRequests DEF IsOver
      <4>2. req'[r].reply = "ok"
        <5>1. req'[r] = OverWith(req[r], "ok")
          BY <1>1, <3>1 DEF Publish, OverWith, Call, Shaped
        <5> QED
          BY <5>1, IdleIs DEF OverWith, IsRequest, HasFields
      <4> QED
        BY <4>1, <4>2 DEF ReplyKept
    <3> QED
      BY <1>3, <3>2, <3>3 DEF Indexed
  <2>3. CASE ~IndexesHold(ConflictView(r), SectionView(r), packets \o Tx(r).packet)
    <3>1. Abort(r, "index violated")
      BY <1>8, <2>3 DEF Commit
    <3>2. req[r].call.op = "decide"
      BY <1>1, <2>1, <2>3, IndexesAccept DEF Indexed, Call
    <3>3. \A q \in Requests : req'[q].reply = "index violated" => req'[q].call.op = "decide"
      BY <1>1, <1>2, <3>1, <3>2, AbortReply
    <3>4. UNCHANGED <<matter, chains>>
      BY <3>1 DEF Abort
    <3> QED
      BY <1>4, <3>3, <3>4 DEF Indexed, ChecksComeBeforeIndexes, Call
  <2> QED
    BY <2>2, <2>3
<1>9. CASE Next
  <2>1. PICK r \in Requests : (\E call \in Calls : Arrive(r, call)) \/ Step(r) \/ SnapshotFails(r)
    BY <1>9 DEF Next
  <2> QED
    BY <1>6, <1>7, <1>8, <2>1
<1> QED
  BY <1>5, <1>9

\* No draft, revision, flag or packet runs into a unique index (ChecksComeBeforeIndexes):
\* the checks made under the locks refuse it before (_lock_report_section_catalog,
\* flag_conflict_op, generate_packet_op).
THEOREM ChecksAreEnough == Spec => []ChecksComeBeforeIndexes
<1>1. IInv /\ Indexed /\ [Next]_vars => Indexed'
  BY IndexedStep
<1>2. Indexed => ChecksComeBeforeIndexes
  BY DEF Indexed
<1> QED
  BY <1>1, <1>2, IndexedInit, Invariance, PTL DEF Spec

-----------------------------------------------------------------------------
(***************************************************************************)
(* Where the deadlocks come from: a request that holds a lock stands past  *)
(* it, so the requests of a cycle wait for later and later kinds of lock,  *)
(* and those that wait for claims for greater and greater ones.            *)
(***************************************************************************)

\* Where a request can stand that holds a lock of a kind.
Places(kind) ==
  CASE kind \in {"conflict", "claim"} -> {"claims", "write"} \cup Written
    [] kind = "section"               -> {"catalog", "write"} \cup Written
    [] kind = "catalog"               -> {"write"} \cup Written
    [] OTHER                          -> {"reset"} \cup Late

OnSections(x) == x.call.op \in {"revise", "approve"}

\* Claims are locked in the order of their identifiers, and one is left to lock.
Ascending(P, H) ==
  /\ P \subseteq Nat
  /\ \E d \in P : ClaimLock(d) \notin H
  /\ \A c, d \in P : ClaimLock(c) \in H /\ ClaimLock(d) \notin H => c < d
  /\ \A lock \in H : lock[1] = "claim" => lock[2] \in P

Stands(x, H, M) ==
  /\ \A lock \in H : x.at \in Places(lock[1])
  /\ \A lock \in H : lock[1] = "section" /\ ~OnSections(x) => x.at \in {"reset"} \cup Late
  /\ x.at = "claims" => Ascending(PairOf(x, M), H)

\* Where a request can stand whose session holds the shared audit lock, the render
\* having failed if it is over.
Sharers == {"root", "build", "release", "done"}

Standing ==
  /\ \A r \in Requests : Stands(req[r], held[r], Rows)
  /\ \A r \in reading : r \in Requests /\ req[r].at \in Sharers

LEMMA PlacesAre ==
  /\ Places("conflict") = {"claims", "write", "audit", "reset", "append", "commit"}
  /\ Places("claim")    = {"claims", "write", "audit", "reset", "append", "commit"}
  /\ Places("section")  = {"catalog", "write", "audit", "reset", "append", "commit"}
  /\ Places("catalog")  = {"write", "audit", "reset", "append", "commit"}
  /\ Places("audit")    = {"reset", "append", "commit"}
  /\ \A kind : /\ {"reset", "append", "commit"} \subseteq Places(kind)
               /\ Places(kind) \subseteq {"claims", "catalog", "write", "audit", "reset",
                                          "append", "commit"}
               /\ "write" \in Places(kind) => "audit" \in Places(kind)
               /\ "claims" \in Places(kind) => {"write", "audit"} \subseteq Places(kind)
               /\ "catalog" \in Places(kind) => kind = "section"
               /\ "claims" \in Places(kind) => kind \in {"conflict", "claim"}
BY DEF Places, Written, Late

\* The steps that take no lock.
Onward(k, l) ==
  \/ k \in {"idle", "replay", "share", "root", "build", "release"} /\ l # "claims"
  \/ k = "write" /\ l = "audit"
  \/ k \in Written /\ l \in {"reset", "append", "commit"}

LEMMA StandsOnward ==
  ASSUME NEW x, NEW y, NEW H, NEW M, Stands(x, H, M), y.call = x.call, Onward(x.at, y.at)
  PROVE  Stands(y, H, M)
<1>1. y.at # "claims"
  BY DEF Onward, Written
<1>2. CASE x.at \in {"idle", "replay", "share", "root", "build", "release"}
  <2>1. H = {}
    BY <1>2, PlacesAre DEF Stands
  <2> QED
    BY <1>1, <2>1 DEF Stands
<1>3. CASE x.at = "write" /\ y.at = "audit"
  <2>1. \A lock \in H : y.at \in Places(lock[1])
    BY <1>3, PlacesAre DEF Stands
  <2>2. \A lock \in H : lock[1] = "section" => OnSections(x)
    BY <1>3 DEF Stands, Late
  <2> QED
    BY <1>1, <2>1, <2>2 DEF Stands, OnSections
<1>4. CASE y.at \in {"reset", "append", "commit"}
  BY <1>1, <1>4, PlacesAre DEF Stands, Late
<1> QED
  BY <1>2, <1>3, <1>4 DEF Onward

LEMMA StandsFree ==
  ASSUME NEW x, NEW M, x.at = "claims" => PairOf(x, M) \subseteq Nat /\ PairOf(x, M) # {}
  PROVE  Stands(x, {}, M)
BY DEF Stands, Ascending

LEMMA PairsAre ==
  ASSUME NEW x, NEW H, NEW M, Local(x, H, M), Typed(M), x.at \in {"conflict", "claims"}
  PROVE  /\ PairOf(x, M) \subseteq Nat /\ PairOf(x, M) # {}
         /\ x.at = "conflict" => x.call.op = "decide"
<1>1. x.call \in CallRecords
  BY DEF Local
<1>2. x.call.op \in {"flag", "decide", "verify"}
  BY <1>1, CallFields DEF Local, Uploading, Creating, Drafting, Revising, Approving, Packing,
     Written
<1>3. CASE x.call.op = "flag"
  <2>1. x.call.a \in Claims /\ x.call.b \in Claims
    BY <1>1, <1>3, CallFields
  <2>2. PairOf(x, M) = {x.call.a, x.call.b}
    BY <1>3 DEF PairOf
  <2>3. x.at # "conflict"
    BY <1>3 DEF Local, Flagging, Written
  <2> QED
    BY <2>1, <2>2, <2>3, ClaimsAssumption
<1>4. CASE x.call.op = "verify"
  <2>1. x.call.claim \in Claims
    BY <1>1, <1>4, CallFields
  <2>2. PairOf(x, M) = {x.call.claim}
    BY <1>4 DEF PairOf
  <2>3. x.at # "conflict"
    BY <1>4 DEF Local, Verifying, Written
  <2> QED
    BY <2>1, <2>2, <2>3, ClaimsAssumption
<1>5. CASE x.call.op = "decide"
  <2>1. x.call.conflict \in DOMAIN M.conflict
    BY <1>5 DEF Local, Deciding
  <2>2. PairOf(x, M) = Case!ClaimsOf(M.conflict[x.call.conflict])
    BY <1>5 DEF PairOf, ClaimsOf, Case!ClaimsOf
  <2>3. PairOf(x, M) \subseteq Claims
    BY <2>1, <2>2 DEF Typed, Case!RowsTyped
  <2>4. PairOf(x, M) # {}
    BY <2>2 DEF Case!ClaimsOf
  <2> QED
    BY <1>5, <2>3, <2>4, ClaimsAssumption
<1> QED
  BY <1>2, <1>3, <1>4, <1>5

\* SELECT ... FOR UPDATE of the conflict.
LEMMA StandsConflict ==
  ASSUME NEW x, NEW y, NEW H, NEW M, Stands(x, H, M), Local(x, H, M), Typed(M),
         x.at = "conflict", y.at = "claims", y.call = x.call, NEW k
  PROVE  Stands(y, H \cup {ConflictLock(k)}, M)
<1>1. H = {}
  BY PlacesAre DEF Stands
<1>2. PairOf(y, M) = PairOf(x, M)
  BY DEF PairOf
<1>3. Ascending(PairOf(y, M), {ConflictLock(k)})
  BY <1>2, PairsAre DEF Ascending, ClaimLock, ConflictLock
<1> QED
  BY <1>1, <1>3, PlacesAre DEF Stands, ConflictLock

\* A set of numbers has a least one.
LEMMA Least ==
  ASSUME NEW S, S \subseteq Nat, S # {}
  PROVE  \E x \in S : \A y \in S : x <= y
<1> DEFINE Less == {p \in Nat \X Nat : p[1] < p[2]}
<1>1. IsWellFoundedOn(Less, Nat)
  BY NatLessThanWellFounded DEF OpToRel
<1> HIDE DEF Less
<1>2. PICK x \in S : \A y \in S : ~ (<<y, x>> \in Less)
  BY <1>1, WFMin
<1>3. ASSUME NEW y \in S PROVE x <= y
  <2>1. x \in Nat /\ y \in Nat /\ <<y, x>> \notin Less
    BY <1>2
  <2>2. ~ (y < x)
    BY <2>1 DEF Less
  <2> QED
    BY <2>1, <2>2
<1> QED
  BY <1>3

LEMMA MinIs ==
  ASSUME NEW S, S \subseteq Nat, S # {}
  PROVE  Min(S) \in S /\ \A y \in S : Min(S) <= y
BY Least DEF Min

\* Of finitely many requests, one has the greatest number.
LEMMA Greatest ==
  ASSUME NEW D, IsFiniteSet(D), D # {}, NEW f \in [D -> Nat]
  PROVE  \E q \in D : \A h \in D : f[h] <= f[q]
<1> DEFINE Above(q) == {h \in D : f[q] < f[h]}
           Ranks    == {Cardinality(Above(q)) : q \in D}
<1>1. \A q \in D : IsFiniteSet(Above(q)) /\ Cardinality(Above(q)) \in Nat
  BY FS_Subset, FS_CardinalityType
<1>2. Ranks \subseteq Nat /\ Ranks # {}
  BY <1>1
<1>3. PICK q \in D : \A h \in D : Cardinality(Above(q)) <= Cardinality(Above(h))
  <2>1. PICK m \in Ranks : \A n \in Ranks : m <= n
    <3> HIDE DEF Ranks
    <3> QED
      BY <1>2, Least
  <2>2. PICK q \in D : m = Cardinality(Above(q))
    OBVIOUS
  <2>3. ASSUME NEW h \in D PROVE Cardinality(Above(q)) <= Cardinality(Above(h))
    <3>1. Cardinality(Above(h)) \in Ranks
      OBVIOUS
    <3> HIDE DEF Ranks, Above
    <3> QED
      BY <2>1, <2>2, <3>1
  <2> QED
    BY <2>3
<1>4. ASSUME NEW h \in D, ~ (f[h] <= f[q]) PROVE FALSE
  <2>1. f[q] < f[h]
    BY <1>4
  <2>2. Above(h) \subseteq Above(q) /\ h \in Above(q) /\ h \notin Above(h)
    BY <2>1
  <2>3. Cardinality(Above(h)) < Cardinality(Above(q))
    <3> HIDE DEF Above
    <3>1. Cardinality(Above(h)) <= Cardinality(Above(q)) /\ Cardinality(Above(h)) # Cardinality(Above(q))
      BY <1>1, <2>2, FS_Subset
    <3> QED
      BY <1>1, <3>1
  <2> HIDE DEF Above
  <2> QED
    BY <1>1, <1>3, <2>3
<1> QED
  BY <1>4

\* The next claim, the least that is left, is locked.
LEMMA StandsClaim ==
  ASSUME NEW x, NEW y, NEW H, NEW M, Stands(x, H, M), x.at = "claims", y.call = x.call,
         NEW U, U = {c \in PairOf(x, M) : ClaimLock(c) \notin H}, NEW c, c = Min(U),
         IF U = {c} THEN y.at \in {"write", "audit"} ELSE y.at = "claims"
  PROVE  c \in U /\ Stands(y, H \cup {ClaimLock(c)}, M)
<1> DEFINE P == PairOf(x, M)
           K == H \cup {ClaimLock(c)}
<1>1. Ascending(P, H)
  BY DEF Stands
<1>2. U # {} /\ U \subseteq Nat /\ P \subseteq Nat
  BY <1>1 DEF Ascending
<1>3. c \in U /\ \A d \in U : c <= d
  BY <1>2, MinIs
<1>4. PairOf(y, M) = P
  BY DEF PairOf
<1>5. \A lock \in H : lock[1] \in {"conflict", "claim"}
  BY PlacesAre DEF Stands
<1>6. \A lock \in K : lock[1] \in {"conflict", "claim"}
  BY <1>5 DEF ClaimLock
<1>7. ASSUME y.at = "claims"
      PROVE  Ascending(P, K)
  <2>1. U # {c}
    BY <1>7
  <2>2. PICK e \in U : e # c
    BY <1>3, <2>1
  <2>3. ClaimLock(e) \notin K
    BY <2>2 DEF ClaimLock
  <2>4. ASSUME NEW b \in P, NEW d \in P, ClaimLock(b) \in K, ClaimLock(d) \notin K
        PROVE  b < d
    <3>1. d \in U /\ d # c
      BY <2>4
    <3>2. CASE ClaimLock(b) \in H
      BY <1>1, <2>4, <3>1, <3>2 DEF Ascending
    <3>3. CASE ClaimLock(b) \notin H
      <4>1. b = c
        BY <2>4, <3>3 DEF ClaimLock
      <4>2. c \in Nat /\ d \in Nat /\ c <= d
        BY <1>2, <1>3, <3>1
      <4> QED
        BY <3>1, <4>1, <4>2
    <3> QED
      BY <3>2, <3>3
  <2>5. ASSUME NEW lock \in K, lock[1] = "claim" PROVE lock[2] \in P
    BY <1>1, <1>3, <2>5 DEF Ascending, ClaimLock
  <2> QED
    BY <1>2, <2>2, <2>3, <2>4, <2>5 DEF Ascending
<1> HIDE DEF K
<1>8. Stands(y, K, M)
  BY <1>4, <1>6, <1>7, PlacesAre DEF Stands
<1> QED
  BY <1>3, <1>8 DEF K

LEMMA StandsSection ==
  ASSUME NEW x, NEW y, NEW H, NEW M, Stands(x, H, M), x.at = "section", OnSections(x),
         y.at \in {"catalog", "audit"}, y.call = x.call, NEW s
  PROVE  Stands(y, H \cup {SectionLock(s)}, M)
<1>1. H = {}
  BY PlacesAre DEF Stands
<1> QED
  BY <1>1, PlacesAre DEF Stands, SectionLock, OnSections

LEMMA StandsCatalog ==
  ASSUME NEW x, NEW y, NEW H, NEW M, Stands(x, H, M), x.at = "catalog", y.at = "write",
         y.call = x.call
  PROVE  Stands(y, H \cup {CatalogLock}, M)
<1>1. \A lock \in H : lock[1] = "section" /\ OnSections(x)
  BY PlacesAre DEF Stands, Late
<1> QED
  BY <1>1, PlacesAre DEF Stands, CatalogLock, OnSections

\* The audit lock, and then the section rows.
LEMMA StandsLater ==
  ASSUME NEW x, NEW y, NEW H, NEW M, Stands(x, H, M), x.at \in Written,
         y.at \in {"reset", "append"}, y.call = x.call, NEW lock
  PROVE  Stands(y, H \cup {lock}, M)
BY PlacesAre DEF Stands, Late

\* What other requests commit leaves the claims of this one as they are.
LEMMA StandsKept ==
  ASSUME NEW x, NEW H, NEW M, NEW N, Stands(x, H, M), Local(x, H, M), Preserved(M, N, H)
  PROVE  Stands(x, H, N)
<1>1. ASSUME x.at = "claims"
      PROVE  PairOf(x, N) = PairOf(x, M)
  <2>1. CASE x.call.op = "decide"
    <3>1. x.call.conflict \in DOMAIN M.conflict /\ ConflictLock(x.call.conflict) \in H
      BY <1>1, <2>1 DEF Local, Deciding
    <3>2. N.conflict[x.call.conflict] = M.conflict[x.call.conflict]
      BY <3>1 DEF Preserved
    <3> QED
      BY <2>1, <3>2 DEF PairOf
  <2>2. CASE x.call.op # "decide"
    BY <2>2 DEF PairOf
  <2> QED
    BY <2>1, <2>2
<1> QED
  BY <1>1 DEF Stands

-----------------------------------------------------------------------------
(***************************************************************************)
(* Standing is kept, one step after the other.                             *)
(***************************************************************************)

LEMMA MoveStands ==
  ASSUME Standing, NEW r \in Requests, NEW y, NEW H, Moves(r, y, H), Stands(y, H, Rows),
         reading' \subseteq reading \cup {r}, r \in reading' => y.at \in Sharers
  PROVE  Standing'
<1>1. Rows' = Rows
  BY RowsStay DEF Moves
<1>2. \A q \in Requests : /\ req'[q] = (IF q = r THEN y ELSE req[q])
                          /\ held'[q] = (IF q = r THEN H ELSE held[q])
  BY DEF Moves
<1>3. ASSUME NEW q \in Requests PROVE Stands(req'[q], held'[q], Rows')
  <2>1. CASE q = r
    BY <1>1, <1>2, <2>1
  <2>2. CASE q # r
    BY <1>1, <1>2, <2>2 DEF Standing
  <2> QED
    BY <2>1, <2>2
<1>4. ASSUME NEW q \in reading' PROVE q \in Requests /\ req'[q].at \in Sharers
  <2>1. CASE q = r
    BY <1>2, <1>4, <2>1
  <2>2. CASE q # r
    <3>1. q \in reading
      BY <1>4, <2>2
    <3>2. q \in Requests /\ req[q].at \in Sharers
      BY <3>1 DEF Standing
    <3> QED
      BY <1>2, <2>2, <3>2
  <2> QED
    BY <2>1, <2>2
<1> QED
  BY <1>3, <1>4 DEF Standing

\* Nobody reads who stands elsewhere.
LEMMA Reads ==
  ASSUME Standing, NEW r \in Requests, reading' = reading, NEW l,
         req[r].at \in Sharers => l \in Sharers
  PROVE  reading' \subseteq reading \cup {r} /\ (r \in reading' => l \in Sharers)
BY DEF Standing

LEMMA AbortStands ==
  ASSUME Shaped, Standing, NEW r \in Requests, NEW reply, Abort(r, reply)
  PROVE  Standing'
<1> DEFINE y == OverWith(req[r], reply)
<1>1. Moves(r, y, {})
  BY AbortMoves
<1>2. y.at = "done"
  BY OverIs DEF IsOver
<1>3. reading' = reading
  BY DEF Abort
<1> HIDE DEF y
<1>4. Stands(y, {}, Rows)
  BY <1>2, StandsFree
<1>5. y.at \in Sharers
  BY <1>2 DEF Sharers
<1> QED
  BY <1>1, <1>3, <1>4, <1>5, MoveStands, Reads

LEMMA GotoStands ==
  ASSUME Shaped, Standing, NEW r \in Requests, NEW l, Goto(r, l), UNCHANGED <<matter, chains>>,
         NEW H, held' = [held EXCEPT ![r] = H],
         reading' \subseteq reading \cup {r}, r \in reading' => l \in Sharers,
         \A y : y.at = l /\ y.call = req[r].call => Stands(y, H, Rows)
  PROVE  Standing'
<1> DEFINE y == [req[r] EXCEPT !.at = l]
<1>1. Moves(r, y, H)
  BY GotoMoves
<1>2. y.at = l /\ y.call = req[r].call
  BY DEF Shaped, IsRequest, HasFields
<1> HIDE DEF y
<1> QED
  BY <1>1, <1>2, MoveStands

\* A lock more, and the request goes on.
LEMMA TakeStands ==
  ASSUME Shaped, Standing, NEW r \in Requests, NEW lock, Take(r, lock), NEW l, Goto(r, l),
         UNCHANGED <<matter, chains, reading>>, req[r].at \notin Sharers,
         \A y : y.at = l /\ y.call = req[r].call => Stands(y, held[r] \cup {lock}, Rows)
  PROVE  Standing'
<1>1. PICK H : H = held[r] \cup {lock}
  OBVIOUS
<1>2. held' = [held EXCEPT ![r] = H] /\ UNCHANGED <<matter, chains>>
  BY <1>1, TakeIs
<1> QED
  BY <1>1, <1>2, Reads, GotoStands

\* The request goes on with the locks it has.
LEMMA OnwardStands ==
  ASSUME Shaped, Standing, NEW r \in Requests, NEW l, Goto(r, l),
         UNCHANGED <<matter, chains, held>>, Onward(req[r].at, l),
         reading' \subseteq reading \cup {r}, r \in reading' => l \in Sharers
  PROVE  Standing'
<1>1. PICK H : H = held[r]
  OBVIOUS
<1>2. held' = [held EXCEPT ![r] = H]
  BY <1>1 DEF Shaped
<1>3. \A y : y.at = l /\ y.call = req[r].call => Stands(y, H, Rows)
  BY <1>1, StandsOnward DEF Standing
<1> QED
  BY <1>2, <1>3, GotoStands

LEMMA ChangeStands ==
  ASSUME Shaped, Standing, NEW r \in Requests, NEW t, NEW l, Change(r, t, l),
         UNCHANGED <<matter, chains, locks>>, Onward(req[r].at, l),
         req[r].at \in Sharers => l \in Sharers
  PROVE  Standing'
<1> DEFINE y == [req[r] EXCEPT !.at = l, !.tx = t]
<1>1. Moves(r, y, held[r])
  BY ChangeMoves DEF locks
<1>2. y.at = l /\ y.call = req[r].call
  BY DEF Shaped, IsRequest, HasFields
<1> HIDE DEF y
<1>3. Stands(y, held[r], Rows)
  BY <1>2, StandsOnward DEF Standing
<1> QED
  BY <1>1, <1>2, <1>3, MoveStands, Reads DEF locks

\* The actions that take a lock.
LEMMA LockConflictStands ==
  ASSUME Ordered, Typed(Rows), Standing, NEW r \in Requests, LockConflict(r)
  PROVE  Standing'
<1>0. Shaped /\ Stands(req[r], held[r], Rows) /\ Local(req[r], held[r], Rows)
  BY OrderlyRequest DEF Ordered, Standing
<1>1. CASE Abort(r, "stale") \/ Abort(r, "refused")
  BY <1>0, <1>1, AbortStands
<1>2. CASE ~ (Abort(r, "stale") \/ Abort(r, "refused"))
  <2>1. PICK k : k = Call(r).conflict
    OBVIOUS
  <2>2. /\ req[r].at = "conflict" /\ Take(r, ConflictLock(k)) /\ Goto(r, "claims")
        /\ UNCHANGED <<matter, chains, reading>>
    BY <1>2, <2>1 DEF LockConflict, At
  <2>3. \A y : y.at = "claims" /\ y.call = req[r].call =>
               Stands(y, held[r] \cup {ConflictLock(k)}, Rows)
    BY <1>0, <2>2, StandsConflict
  <2>4. req[r].at \notin Sharers
    BY <2>2 DEF Sharers
  <2> QED
    BY <1>0, <2>2, <2>3, <2>4, TakeStands
<1> QED
  BY <1>1, <1>2

LEMMA LockNextClaimStands ==
  ASSUME Ordered, Standing, NEW r \in Requests, LockNextClaim(r)
  PROVE  Standing'
<1>0. Shaped /\ Stands(req[r], held[r], Rows)
  BY DEF Ordered, Standing
<1>1. PICK U : U = UnlockedClaims(r)
  OBVIOUS
<1>2. PICK c : c = Min(U)
  OBVIOUS
<1>3. PICK l : l = IF U # {c} THEN "claims"
                   ELSE IF Call(r).op = "decide" THEN "audit" ELSE "write"
  OBVIOUS
<1>4. /\ req[r].at = "claims" /\ Take(r, ClaimLock(c)) /\ Goto(r, l)
      /\ UNCHANGED <<matter, chains, reading>>
  BY <1>1, <1>2, <1>3 DEF LockNextClaim, At
<1>5. U = {d \in PairOf(req[r], Rows) : ClaimLock(d) \notin held[r]}
  BY <1>1, RowsAre DEF UnlockedClaims, PairOf, ClaimsToLock, Call
<1>6. IF U = {c} THEN l \in {"write", "audit"} ELSE l = "claims"
  BY <1>3
<1>7. \A y : y.at = l /\ y.call = req[r].call => Stands(y, held[r] \cup {ClaimLock(c)}, Rows)
  BY <1>0, <1>2, <1>4, <1>5, <1>6, StandsClaim
<1>8. req[r].at \notin Sharers
  BY <1>4 DEF Sharers
<1> QED
  BY <1>0, <1>4, <1>7, <1>8, TakeStands

\* Who is about to lock its section revises or approves it.
LEMMA SectionOps ==
  ASSUME NEW x, NEW H, NEW M, Local(x, H, M), x.at = "section"
  PROVE  OnSections(x)
BY CallFields DEF Local, Unwritten, Uploading, Creating, Verifying, Flagging, Drafting,
                  Deciding, Packing, Written, OnSections

LEMMA LockSectionStands ==
  ASSUME Ordered, Standing, NEW r \in Requests, LockSection(r)
  PROVE  Standing'
<1>0. Shaped /\ Stands(req[r], held[r], Rows) /\ Local(req[r], held[r], Rows)
  BY OrderlyRequest DEF Ordered, Standing
<1>1. CASE Abort(r, "stale") \/ Abort(r, "refused")
  BY <1>0, <1>1, AbortStands
<1>2. CASE ~ (Abort(r, "stale") \/ Abort(r, "refused"))
  <2>1. PICK s, l : s = Call(r).section /\ l = IF Call(r).op = "approve" THEN "audit" ELSE "catalog"
    OBVIOUS
  <2>2. /\ req[r].at = "section" /\ Take(r, SectionLock(s)) /\ Goto(r, l)
        /\ UNCHANGED <<matter, chains, reading>>
    BY <1>2, <2>1 DEF LockSection, At
  <2>3. OnSections(req[r]) /\ l \in {"catalog", "audit"}
    BY <1>0, <2>1, <2>2, SectionOps
  <2>4. \A y : y.at = l /\ y.call = req[r].call =>
               Stands(y, held[r] \cup {SectionLock(s)}, Rows)
    BY <1>0, <2>2, <2>3, StandsSection
  <2>5. req[r].at \notin Sharers
    BY <2>2 DEF Sharers
  <2> QED
    BY <1>0, <2>2, <2>4, <2>5, TakeStands
<1> QED
  BY <1>1, <1>2

LEMMA LockCatalogStands ==
  ASSUME Ordered, Standing, NEW r \in Requests, LockCatalog(r)
  PROVE  Standing'
<1>0. Shaped /\ Stands(req[r], held[r], Rows)
  BY DEF Ordered, Standing
<1>1. /\ req[r].at = "catalog" /\ Take(r, CatalogLock) /\ Goto(r, "write")
      /\ UNCHANGED <<matter, chains, reading>>
  BY DEF LockCatalog, At
<1>2. \A y : y.at = "write" /\ y.call = req[r].call => Stands(y, held[r] \cup {CatalogLock}, Rows)
  BY <1>0, <1>1, StandsCatalog
<1>3. req[r].at \notin Sharers
  BY <1>1 DEF Sharers
<1> QED
  BY <1>0, <1>1, <1>2, <1>3, TakeStands

LEMMA LockAuditStands ==
  ASSUME Ordered, Standing, NEW r \in Requests, LockAudit(r)
  PROVE  Standing'
<1>0. Shaped /\ Stands(req[r], held[r], Rows)
  BY DEF Ordered, Standing
<1>1. PICK l : l = IF Call(r).op \in EvidenceOps THEN "reset" ELSE "append"
  OBVIOUS
<1>2. /\ req[r].at = "audit" /\ Take(r, AuditLock) /\ Goto(r, l)
      /\ UNCHANGED <<matter, chains, reading>>
  BY <1>1 DEF LockAudit, At
<1>3. req[r].at \in Written /\ l \in {"reset", "append"}
  BY <1>1, <1>2 DEF Written
<1>4. \A y : y.at = l /\ y.call = req[r].call => Stands(y, held[r] \cup {AuditLock}, Rows)
  BY <1>0, <1>3, StandsLater
<1>5. req[r].at \notin Sharers
  BY <1>2 DEF Sharers
<1> QED
  BY <1>0, <1>2, <1>4, <1>5, TakeStands

LEMMA LockSectionForResetStands ==
  ASSUME Ordered, Standing, NEW r \in Requests, LockSectionForReset(r)
  PROVE  Standing'
<1>1. PICK s \in UnlockedSections(r) : Take(r, SectionLock(s))
  BY DEF LockSectionForReset
<1>2. PICK H : H = held[r] \cup {SectionLock(s)}
  OBVIOUS
<1>3. req[r].at = "reset" /\ UNCHANGED <<matter, chains, req, reading>>
  BY DEF LockSectionForReset, At
<1>4. held' = [held EXCEPT ![r] = H]
  BY <1>1, <1>2, TakeIs DEF Ordered
<1>5. Moves(r, req[r], H)
  BY <1>3, <1>4 DEF Moves, Ordered, Shaped
<1>6. Stands(req[r], H, Rows)
  BY <1>2, <1>3, StandsLater DEF Standing, Written
<1> QED
  BY <1>3, <1>5, <1>6, MoveStands, Reads

\* The actions that take none.
LEMMA WritesStand ==
  ASSUME Shaped, Standing, NEW r \in Requests,
         \/ WriteSource(r) \/ WriteClaim(r) \/ WriteConflict(r)
         \/ WriteAttestation(r) \/ WriteDraft(r) \/ WriteRevision(r)
  PROVE  Standing'
<1>1. \/ \E reply : Abort(r, reply)
      \/ \E t : /\ req[r].at = "write" /\ Change(r, t, "audit")
                /\ UNCHANGED <<matter, chains, locks>>
  BY DEF WriteSource, WriteClaim, WriteConflict, WriteAttestation, WriteDraft, WriteRevision, At
<1>2. ASSUME NEW t, req[r].at = "write", Change(r, t, "audit"), UNCHANGED <<matter, chains, locks>>
      PROVE  Standing'
  BY <1>2, ChangeStands DEF Onward, Sharers
<1> QED
  BY <1>1, <1>2, AbortStands

LEMMA AppendsStand ==
  ASSUME Shaped, Standing, NEW r \in Requests,
         \/ ResetSections(r) \/ AppendEvent(r) \/ AppendFlag(r) \/ AppendDecision(r)
         \/ AppendApproval(r) \/ RecordPacket(r)
  PROVE  Standing'
<1>1. \/ \E reply : Abort(r, reply)
      \/ \E t : /\ req[r].at = "reset" /\ Change(r, t, "append")
                /\ UNCHANGED <<matter, chains, locks>>
      \/ \E t : /\ req[r].at = "append" /\ Change(r, t, "commit")
                /\ UNCHANGED <<matter, chains, locks>>
  BY DEF ResetSections, AppendEvent, AppendFlag, AppendDecision, AppendApproval, RecordPacket,
         Replay, At
<1>2. ASSUME NEW t, NEW k, NEW l, req[r].at = k, Change(r, t, l), UNCHANGED <<matter, chains, locks>>,
             k \in {"reset", "append"}, l \in {"append", "commit"}
      PROVE  Standing'
  BY <1>2, ChangeStands DEF Onward, Written, Sharers
<1> QED
  BY <1>1, <1>2, AbortStands

LEMMA PacketsStand ==
  ASSUME Shaped, Standing, NEW r \in Requests,
         \/ LookForReplay(r) \/ ShareAuditLock(r) \/ ReadRoot(r) \/ BuildSnapshot(r)
         \/ ReleaseShared(r)
  PROVE  Standing'
<1>1. CASE LookForReplay(r)
  <2>1. CASE \E reply : Abort(r, reply)
    BY <2>1, AbortStands
  <2>2. CASE ~ \E reply : Abort(r, reply)
    <3>1. req[r].at = "replay" /\ Goto(r, "share") /\ UNCHANGED <<matter, chains, locks>>
      BY <1>1, <2>2 DEF LookForReplay, Replay, At
    <3>2. Onward(req[r].at, "share") /\ req[r].at \notin Sharers
      BY <3>1 DEF Onward, Sharers
    <3> QED
      BY <3>1, <3>2, Reads, OnwardStands DEF locks
  <2> QED
    BY <2>1, <2>2
<1>2. CASE ShareAuditLock(r)
  <2>1. /\ req[r].at = "share" /\ Goto(r, "root") /\ UNCHANGED <<matter, chains, held>>
        /\ reading' = reading \cup {r}
    BY <1>2 DEF ShareAuditLock, At
  <2>2. Onward(req[r].at, "root") /\ "root" \in Sharers
    BY <2>1 DEF Onward, Sharers
  <2> QED
    BY <2>1, <2>2, OnwardStands
<1>3. CASE ReadRoot(r)
  <2>1. PICK t : req[r].at = "root" /\ Change(r, t, "build") /\ UNCHANGED <<matter, chains, locks>>
    BY <1>3 DEF ReadRoot, At
  <2> QED
    BY <2>1, ChangeStands DEF Onward, Sharers
<1>4. CASE BuildSnapshot(r)
  <2>1. PICK t : req[r].at = "build" /\ Change(r, t, "release") /\ UNCHANGED <<matter, chains, locks>>
    BY <1>4 DEF BuildSnapshot, At
  <2> QED
    BY <2>1, ChangeStands DEF Onward, Sharers
<1>5. CASE ReleaseShared(r)
  <2>1. /\ req[r].at = "release" /\ Goto(r, "audit") /\ UNCHANGED <<matter, chains, held>>
        /\ reading' = reading \ {r}
    BY <1>5 DEF ReleaseShared, At
  <2>2. Onward(req[r].at, "audit")
    BY <2>1 DEF Onward
  <2> QED
    BY <2>1, <2>2, OnwardStands
<1> QED
  BY <1>1, <1>2, <1>3, <1>4, <1>5

\* What another commits leaves alone what this one has locked.
LEMMA PublishPreserves ==
  ASSUME Ordered, Typed(Rows), NEW r \in Requests, At(r, "commit"), Publish(r),
         NEW q \in Requests, q # r, NEW M2, M2 = Rows'
  PROVE  Preserved(Rows, M2, held[q])
<1>1. Covers(Tx(r), held[r], Rows) /\ AuditLock \in held[r]
  BY OrderlyRequest, CommitCovers DEF At, Tx, Local
<1>2. /\ M2.sources = Rows.sources \cup Tx(r).sources
      /\ M2.claim = Overlay(Rows.claim, Tx(r).claim)
      /\ M2.conflict = Overlay(Rows.conflict, Tx(r).conflict)
      /\ M2.section = Overlay(Rows.section, Tx(r).section)
      /\ M2.events = Len(log')
  BY PublishedRows DEF Publish
<1>3. Rows.events \in Nat /\ M2.events \in Nat /\ Rows.events < M2.events
  <2>1. Len(log) \in Nat
    BY OrderlyRequest
  <2> QED
    BY <1>2, <2>1, PublishedLog, RowsAre
<1>4. held[q] \cap held[r] = {}
  BY DEF Ordered, LocksExclusive
<1> QED
  BY <1>1, <1>2, <1>3, <1>4, CommitPreserves

\* Those still at work stand where they stood when another commits.
LEMMA PublishStands ==
  ASSUME Ordered, Typed(Rows), Standing, NEW r \in Requests, At(r, "commit"), Publish(r)
  PROVE  Standing'
<1>1. PICK M2 : M2 = Rows'
  OBVIOUS
<1>2. ASSUME NEW q \in Requests, q # r
      PROVE  Stands(req[q], held[q], M2)
  BY <1>1, <1>2, PublishPreserves, OrderlyRequest, StandsKept DEF Standing
<1>3. /\ req'[r].at = "done" /\ held'[r] = {}
      /\ \A q \in Requests : q # r => req'[q] = req[q] /\ held'[q] = held[q]
  BY PublishedRequests DEF IsOver
<1>4. Stands(req'[r], held'[r], M2)
  BY <1>3, StandsFree
<1>5. \A q \in Requests : Stands(req'[q], held'[q], M2)
  BY <1>2, <1>3, <1>4
<1>6. \A q \in reading' : q \in Requests /\ req'[q].at \in Sharers
  BY <1>3 DEF Publish, Standing, Sharers
<1> QED
  BY <1>1, <1>5, <1>6 DEF Standing

LEMMA ArriveStands ==
  ASSUME Ordered, Ordered', Typed(Rows), Standing, NEW r \in Requests, NEW call \in Calls,
         Arrive(r, call)
  PROVE  Standing'
<1>1. req[r].at = "idle" /\ held[r] = {} /\ UNCHANGED <<matter, chains, locks>>
  BY OrderlyRequest DEF Arrive, At, Local
<1>2. Rows' = Rows
  BY <1>1, RowsStay
<1>3. \A q \in Requests : q # r => req'[q] = req[q]
  BY DEF Arrive, Ordered, Shaped
<1>4. Local(req'[r], {}, Rows)
  BY <1>1, <1>2 DEF Ordered, Orderly, locks
<1>5. Stands(req'[r], {}, Rows)
  BY <1>4, PairsAre, StandsFree
<1>6. r \notin reading
  BY <1>1 DEF Standing, Sharers
<1>7. ASSUME NEW q \in Requests PROVE Stands(req'[q], held'[q], Rows')
  <2>1. CASE q = r
    BY <1>1, <1>2, <1>5, <2>1 DEF locks
  <2>2. CASE q # r
    BY <1>1, <1>2, <1>3, <2>2 DEF locks, Standing
  <2> QED
    BY <2>1, <2>2
<1>8. \A q \in reading' : q \in Requests /\ req'[q].at \in Sharers
  BY <1>1, <1>3, <1>6 DEF locks, Standing
<1> QED
  BY <1>7, <1>8 DEF Standing

LEMMA InitStanding == Init => Standing
<1> SUFFICES ASSUME Init PROVE Standing
  OBVIOUS
<1>1. \A r \in Requests : Stands(req[r], held[r], Rows)
  BY InitRequests, IdleIs, StandsFree
<1>2. reading = {}
  BY DEF Init
<1> QED
  BY <1>1, <1>2 DEF Standing

LEMMA StandingStep ==
  ASSUME IInv, Standing, [Next]_vars
  PROVE  Standing'
<1>1. Ordered /\ Shaped /\ Typed(Rows) /\ Ordered'
  BY KeptTyped, IInvStep DEF IInv, Ordered
<1>2. CASE UNCHANGED vars
  <2>1. Rows' = Rows /\ req' = req /\ held' = held /\ reading' = reading
    BY <1>2, RowsStay DEF vars, locks
  <2> QED
    BY <2>1 DEF Standing
<1>3. ASSUME NEW r \in Requests, NEW call \in Calls, Arrive(r, call)
      PROVE  Standing'
  BY <1>1, <1>3, ArriveStands
<1>4. ASSUME NEW r \in Requests, SnapshotFails(r) \/ CancelDeadlocked(r)
      PROVE  Standing'
  BY <1>1, <1>4, AbortStands DEF SnapshotFails, CancelDeadlocked
<1>5. ASSUME NEW r \in Requests, Commit(r)
      PROVE  Standing'
  BY <1>1, <1>5, PublishStands, AbortStands DEF Commit
<1>6. ASSUME NEW r \in Requests, Step(r)
      PROVE  Standing'
  <2>1. CASE LockConflict(r) \/ LockNextClaim(r) \/ LockSection(r) \/ LockCatalog(r)
    BY <1>1, <2>1, LockConflictStands, LockNextClaimStands, LockSectionStands, LockCatalogStands
  <2>2. CASE LockAudit(r) \/ LockSectionForReset(r)
    BY <1>1, <2>2, LockAuditStands, LockSectionForResetStands
  <2>3. CASE \/ WriteSource(r) \/ WriteClaim(r) \/ WriteConflict(r)
             \/ WriteAttestation(r) \/ WriteDraft(r) \/ WriteRevision(r)
    BY <1>1, <2>3, WritesStand
  <2>4. CASE \/ ResetSections(r) \/ AppendEvent(r) \/ AppendFlag(r) \/ AppendDecision(r)
             \/ AppendApproval(r) \/ RecordPacket(r)
    BY <1>1, <2>4, AppendsStand
  <2>5. CASE \/ LookForReplay(r) \/ ShareAuditLock(r) \/ ReadRoot(r) \/ BuildSnapshot(r)
             \/ ReleaseShared(r)
    BY <1>1, <2>5, PacketsStand
  <2> QED
    BY <1>4, <1>5, <1>6, <2>1, <2>2, <2>3, <2>4, <2>5, Zenon DEF Step
<1>7. CASE Next
  <2>1. PICK r \in Requests : (\E call \in Calls : Arrive(r, call)) \/ Step(r) \/ SnapshotFails(r)
    BY <1>7 DEF Next
  <2> QED
    BY <1>3, <1>4, <1>6, <2>1
<1> QED
  BY <1>2, <1>7

-----------------------------------------------------------------------------
(***************************************************************************)
(* What a request waits for, and where its holder stands.                  *)
(***************************************************************************)

\* The labels at which a request waits for a lock.
Waiting == {"conflict", "claims", "section", "catalog", "audit", "reset", "share"}

NextClaim(q) == Min(UnlockedClaims(q))

LEMMA WantsAre ==
  ASSUME NEW q \in Requests, NEW lock \in Wants(q)
  PROVE  /\ req[q].at \in Waiting \ {"share"}
         /\ req[q].at = "conflict" => lock[1] = "conflict"
         /\ req[q].at = "claims"   => lock = ClaimLock(NextClaim(q))
         /\ req[q].at = "section"  => lock[1] = "section"
         /\ req[q].at = "catalog"  => lock[1] = "catalog"
         /\ req[q].at = "audit"    => lock = AuditLock
         /\ req[q].at = "reset"    => lock[1] = "section"
BY DEF Wants, At, Waiting, NextClaim, ConflictLock, SectionLock, CatalogLock

LEMMA Blocked ==
  ASSUME Standing, NEW q \in Requests, NEW h \in WaitsFor(q)
  PROVE  /\ h \in Requests /\ h # q /\ req[q].at \in Waiting
         /\ \/ req[q].at = "share" /\ AuditLock \in held[h]
            \/ req[q].at = "audit" /\ h \in reading
            \/ req[q].at # "share" /\ \E lock \in Wants(q) : lock \in held[h]
<1>1. CASE At(q, "share")
  BY <1>1 DEF WaitsFor, Holders, At, Waiting
<1>2. CASE ~At(q, "share")
  <2>1. PICK lock \in Wants(q) : h \in Blockers(lock, q)
    BY <1>2 DEF WaitsFor
  <2>2. req[q].at \in Waiting \ {"share"} /\ (lock = AuditLock => req[q].at = "audit")
    BY <2>1, WantsAre DEF AuditLock, ClaimLock, Waiting
  <2>3. req[q].at \in Waiting /\ req[q].at # "share"
    BY <2>2
  <2>4. CASE h \in Holders(lock, q)
    <3>1. h \in Requests /\ h # q /\ lock \in held[h]
      BY <2>4 DEF Holders
    <3> QED
      BY <2>1, <2>3, <3>1
  <2>5. CASE h \notin Holders(lock, q)
    <3>1. lock = AuditLock /\ h \in reading /\ h # q
      BY <2>1, <2>5 DEF Blockers
    <3> QED
      BY <2>2, <3>1 DEF Standing
  <2> QED
    BY <2>4, <2>5
<1> QED
  BY <1>1, <1>2

\* A request waits for one that stands further on, claims aside.
LEMMA HolderStands ==
  ASSUME Standing, NEW q \in Requests, NEW h \in WaitsFor(q), req[h].at \in Waiting
  PROVE  /\ req[q].at \in {"audit", "share"} => req[h].at = "reset"
         /\ req[q].at = "catalog"  => req[h].at \in {"audit", "reset"}
         /\ req[q].at = "section"  => req[h].at \in {"catalog", "audit", "reset"}
         /\ req[q].at = "conflict" => req[h].at \in {"claims", "audit", "reset"}
         /\ req[q].at = "claims" =>
              /\ req[h].at \in {"claims", "audit", "reset"}
              /\ ClaimLock(NextClaim(q)) \in held[h]
         /\ req[q].at = "reset" => OnSections(req[h]) \/ req[h].at = "reset"
<1>1. h \in Requests /\ Stands(req[h], held[h], Rows)
  BY Blocked DEF Standing
<1>2. CASE req[q].at = "share" /\ AuditLock \in held[h]
  <2>1. req[h].at \in Places("audit")
    BY <1>1, <1>2 DEF Stands, AuditLock
  <2> QED
    BY <1>2, <2>1, PlacesAre DEF Waiting
<1>3. CASE req[q].at = "audit" /\ h \in reading
  BY <1>3 DEF Standing, Sharers, Waiting
<1>4. CASE req[q].at # "share" /\ \E lock \in Wants(q) : lock \in held[h]
  <2>1. PICK lock \in Wants(q) : lock \in held[h]
    BY <1>4
  <2>2. req[h].at \in Places(lock[1])
    BY <1>1, <2>1 DEF Stands
  <2>3. lock[1] = "section" => OnSections(req[h]) \/ req[h].at \in {"reset"} \cup Late
    BY <1>1, <2>1 DEF Stands
  <2>4. /\ req[q].at = "conflict" => lock[1] = "conflict"
        /\ req[q].at = "claims"   => lock[1] = "claim" /\ ClaimLock(NextClaim(q)) \in held[h]
        /\ req[q].at = "section"  => lock[1] = "section"
        /\ req[q].at = "catalog"  => lock[1] = "catalog"
        /\ req[q].at = "audit"    => lock[1] = "audit"
        /\ req[q].at = "reset"    => lock[1] = "section"
    BY <2>1, WantsAre DEF AuditLock, ClaimLock
  <2> QED
    BY <1>4, <2>2, <2>3, <2>4, PlacesAre DEF Waiting, Late
<1> QED
  BY <1>2, <1>3, <1>4, Blocked

\* Among requests that wait for claims, the claim waited for is smaller than the next
\* one its holder waits for.
LEMMA ClaimsAscend ==
  ASSUME Standing, NEW q \in Requests, NEW h \in WaitsFor(q),
         req[q].at = "claims", req[h].at = "claims"
  PROVE  NextClaim(q) < NextClaim(h)
<1>1. h \in Requests /\ ClaimLock(NextClaim(q)) \in held[h]
  BY Blocked, HolderStands DEF Waiting
<1> DEFINE P == PairOf(req[h], Rows)
           H == held[h]
           c == NextClaim(q)
           U == {d \in P : ClaimLock(d) \notin H}
<1>2. Ascending(P, H)
  BY <1>1 DEF Standing, Stands
<1>3. UnlockedClaims(h) = U
  BY RowsAre DEF UnlockedClaims, PairOf, ClaimsToLock, Call
<1>4. U \subseteq Nat /\ U # {}
  BY <1>2 DEF Ascending
<1>5. NextClaim(h) \in U
  BY <1>3, <1>4, MinIs DEF NextClaim
<1>6. c \in P /\ ClaimLock(c) \in H
  BY <1>1, <1>2 DEF Ascending, ClaimLock
<1> HIDE DEF P, H, c
<1>7. c < NextClaim(h)
  BY <1>2, <1>5, <1>6 DEF Ascending
<1> QED
  BY <1>7 DEF c

LEMMA NextClaimIs ==
  ASSUME Standing, NEW q \in Requests, req[q].at = "claims"
  PROVE  NextClaim(q) \in Nat
<1>1. Ascending(PairOf(req[q], Rows), held[q])
  BY DEF Standing, Stands
<1>2. UnlockedClaims(q) = {d \in PairOf(req[q], Rows) : ClaimLock(d) \notin held[q]}
  BY RowsAre DEF UnlockedClaims, PairOf, ClaimsToLock, Call
<1>3. UnlockedClaims(q) \subseteq Nat /\ UnlockedClaims(q) # {}
  BY <1>1, <1>2 DEF Ascending
<1> QED
  BY <1>3, MinIs DEF NextClaim

LEMMA StandingIsSafe == IInv /\ Standing => CyclesNeedASection
<1> SUFFICES ASSUME IInv, Standing, NEW D \in SUBSET Requests, D # {},
                    \A q \in D : WaitsFor(q) \cap D # {},
                    ~ \E q, h \in D : /\ At(q, "reset") /\ h \in WaitsFor(q)
                                      /\ Call(h).op \in {"revise", "approve"}
             PROVE  FALSE
  BY DEF CyclesNeedASection
<1>1. \A q \in D : req[q].at \in Waiting
  BY Blocked
<1>2. ASSUME NEW q \in D
      PROVE  \E h \in D : h \in WaitsFor(q) /\ h # q /\ req[h].at \in Waiting
  BY <1>1, Blocked
\* Nobody holds the audit lock.
<1>3. ASSUME NEW q \in D, req[q].at = "reset" PROVE FALSE
  <2>1. PICK h \in D : h \in WaitsFor(q) /\ h # q /\ req[h].at \in Waiting
    BY <1>2
  <2>2. ~OnSections(req[h])
    BY <1>3, <2>1 DEF At, Call, OnSections
  <2>3. req[h].at = "reset"
    BY <1>3, <2>1, <2>2, HolderStands
  <2>4. AuditLock \in held[q] /\ AuditLock \in held[h]
    BY <1>3, <2>3, OrderlyRequest DEF Local, IInv
  <2> QED
    BY <2>1, <2>4 DEF IInv, Ordered, LocksExclusive
\* So nobody waits for it, and so on.
<1>4. ASSUME NEW q \in D, req[q].at \in {"audit", "share"} PROVE FALSE
  BY <1>2, <1>3, <1>4, HolderStands
<1>5. ASSUME NEW q \in D, req[q].at = "catalog" PROVE FALSE
  BY <1>2, <1>3, <1>4, <1>5, HolderStands
<1>6. ASSUME NEW q \in D, req[q].at = "section" PROVE FALSE
  BY <1>2, <1>3, <1>4, <1>5, <1>6, HolderStands
\* Those that wait for claims wait for one another.
<1>7. \A q \in D : req[q].at # "claims"
  <2> DEFINE E == {q \in D : req[q].at = "claims"}
             f == [q \in E |-> NextClaim(q)]
  <2> SUFFICES ASSUME E # {} PROVE FALSE
    OBVIOUS
  <2>1. f \in [E -> Nat]
    BY NextClaimIs
  <2>2. IsFiniteSet(E)
    BY RequestsAssumption, FS_Subset
  <2>3. PICK q \in E : \A h \in E : f[h] <= f[q]
    <3> HIDE DEF E, f
    <3> QED
      BY <2>1, <2>2, Greatest
  <2>4. PICK h \in D : h \in WaitsFor(q) /\ req[h].at \in Waiting
    BY <1>2
  <2>5. req[h].at = "claims"
    BY <1>3, <1>4, <2>4, HolderStands
  <2>6. NextClaim(q) < NextClaim(h)
    BY <2>4, <2>5, ClaimsAscend
  <2>7. NextClaim(h) <= NextClaim(q) /\ NextClaim(h) \in Nat /\ NextClaim(q) \in Nat
    BY <2>3, <2>5, NextClaimIs
  <2> QED
    BY <2>6, <2>7
<1>8. ASSUME NEW q \in D, req[q].at = "conflict" PROVE FALSE
  BY <1>2, <1>3, <1>4, <1>7, <1>8, HolderStands
<1> QED
  BY <1>1, <1>3, <1>4, <1>5, <1>6, <1>7, <1>8 DEF Waiting

\* In every deadlock a request that withdraws approvals waits for a section row whose
\* holder revises or approves it (CyclesNeedASection): the order in which the claim rows
\* are locked, and the conflict, catalog and audit locks around them, close no cycle on
\* their own (_lock_claim_rows).
THEOREM CyclesHaveASection == Spec => []CyclesNeedASection
<1>1. IInv /\ Standing /\ [Next]_vars => Standing'
  BY StandingStep
<1> QED
  BY <1>1, InitStanding, StandingIsSafe, Invariance, PTL DEF Spec

-----------------------------------------------------------------------------
(***************************************************************************)
(* What EvidenceCase promises, of the transactions.                        *)
(***************************************************************************)

LEMMA SpecKept == Spec => Kept!Spec
<1>1. Init => Kept!Init
  <2>1. Init => Case!Init
    BY DEF Init, Case!Init
  <2> QED
    BY <2>1, KeptInit
<1>2. IInv /\ [Next]_vars => [Kept!Next]_(Kept!vars)
  BY IInvStep, KeptNext DEF matter, chains, Kept!vars
<1> QED
  BY <1>1, <1>2, Invariance, PTL DEF Spec, Kept!Spec

\* Two requests that flag the same pair of claims at once never leave two open conflicts
\* on it (OneOpenConflictPerPair of EvidenceCase; flag_conflict).
THEOREM PairsStayDistinct == Spec => []Case!OneOpenConflictPerPair
<1>1. Kept!Spec => []Kept!OneOpenConflictPerPair
  BY KeptConstants, KeptOpening, Kept!PairsCorrect
<1>2. Kept!OneOpenConflictPerPair => Case!OneOpenConflictPerPair
  BY KeptPairs
<1> QED
  BY <1>1, <1>2, SpecKept, PTL

\* An approved revision stands on the evidence as it is, whatever ran between the reading
\* of the evidence and the commit (ApprovalStandsOnCurrentEvidence of EvidenceCase;
\* approve_section, decide_conflict).
THEOREM ApprovalsStayCurrent == Spec => []Case!ApprovalStandsOnCurrentEvidence
<1>1. Kept!Spec => []Kept!ApprovalStandsOnCurrentEvidence
  BY KeptConstants, KeptOpening, Kept!ApprovalsCorrect
<1>2. Kept!ApprovalStandsOnCurrentEvidence => Case!ApprovalStandsOnCurrentEvidence
  BY KeptApprovals
<1> QED
  BY <1>1, <1>2, SpecKept, PTL

\* Whatever requests run beside one another, a production packet built from the committed
\* rows is candid about every section it includes (ProductionIsCandid of EvidenceCase;
\* build_packet).
THEOREM ProductionsStayCandid == Spec => []Case!ProductionIsCandid
<1>1. Kept!Spec => []Kept!ProductionIsCandid
  BY KeptConstants, KeptOpening, Kept!CandourCorrect
<1>2. Kept!ProductionIsCandid => Case!ProductionIsCandid
  BY KeptCandour
<1> QED
  BY <1>1, <1>2, SpecKept, PTL
=============================================================================
