# Atlas Argus: formal models of the evidence server

Atlas Argus is a review workbench for aviation-accident litigation. A matter
holds source documents, claims extracted from them, conflicts between claims,
decisions on conflicts, and report sections that cite claims. Out of these it
generates evidence packets, internal or for production to the other side. The
server (`src/server/src/atlas_argus`, Python, FastAPI, SQLAlchemy, PostgreSQL)
keeps the record; the browser application (`src/src`, TypeScript, React) shows
it, and has a local mode without a server.

This directory holds TLA+ models of the server and of the browser's store, their
TLC configurations, and proofs checked by TLAPS. Every definition is taken from the code; `PROJECT.json`
names the lines each one stands for.

Contents: [components](#1-components), [hard behaviours](#2-hard-behaviours),
[modules](#3-modules-and-their-correspondence-to-the-code),
[runs](#4-runs-what-tlc-checks), [fairness](#5-fairness),
[disagreements](#6-disagreements-with-the-documentation),
[proofs](#7-proofs), [limits](#8-what-is-not-modelled),
[plan](#9-plan).

## 1. Components

| Component | State | Operations | What makes it correct |
| --- | --- | --- | --- |
| Domain rules (`domain/*.py`) | none | standing of a claim, transition of a decision, eligibility, section impact, permissions, quote outcome | the most decisive standing wins; withheld, disputed or unverified claims stay out |
| Evidence services (`services.py` 182-333, 2589-3681) | source, claim, conflict, decision, section, section revision, audit event | upload, extract, attest, flag, decide, draft, revise, approve | a claim follows *all* its conflicts; approvals follow the evidence; attestation is independent |
| Request transactions (`db/session.py`, lock helpers `services.py` 92-143, 182) | row locks, advisory locks, pending writes | every route is one transaction, committed or rolled back | what commits is a sequence of whole operations; chains do not fork; nothing unseen is overwritten |
| Evidence packets (`packet.py`, `approval.py`, `services.py` 3684-3931) | packet artifacts | snapshot, render without lock, recheck and record, replay by key | candid: every preserved conflict of what is shown is disclosed, nothing withheld leaks, nothing outside the approved evidence |
| PDF rendering (`packet_pdf.py`) | none | bytes of a packet | deterministic output |
| Integrity (`integrity.py`, `integrity_anchors.py`, `services.py` 960-1640) | three ordered hash chains, revision lineages, extraction manifests, signed checkpoints | append, verify, anchor | chains do not fork; verification finds every change in place of what is hashed, and a checkpoint what was taken away or replaced; no false alarm |
| Matter and account administration (`services.py` 670-750, 2096-2455, `db/restore_matter_access.py`, migrations 0011 and 0018) | accounts, memberships, account audit chain | open a matter, admit, demote, remove, suspend, reinstate, provision, restore, reset | every matter keeps an effective Senior; governance is audited |
| Authentication (`auth.py`, `services.py` 2388-2455) | accounts' credentials, sessions, throttle rows, hashing slots | sign in and out, change and reset a password, enrol, enable, verify and reset a factor | a code counts once; a session counts as verified only with the factor its owner has now; a lockout stops every guess; a rotation or reset ends the sessions there are |
| Source upload (`api/app.py` body limit, `api/admission.py`, `api/routes.py` 322-420, `services.py` 2485-2770) | two counts of requests in flight, idempotency keys | admit, receive the body, authorize, extract, authorize again, store, resolve a race | one source per key; places come back however a request ends; authority is rechecked |
| Extraction (`ingestion.py`) | a child process and its helper, a pipe, a temporary directory | start, extract page by page, hand over the result, time out, kill, check, clean up | nothing is lost without a word; an honest result is accepted; nothing stays behind; it ends |
| HTTP application (`api/app.py`, `schemas.py`, `config.py`) | the count of bodies in flight (under source upload) | routing, limits | input shape |
| Schema, guards, row-level security (`db/models.py`, `guards.py`, migrations) | all rows | constraints, triggers, policies | append-only tables; unique pairs, references and keys |
| Initialization, seed, restore (`db/*.py`) | opening state | one-shot operator commands | start only from an empty or stranded state |
| Browser store (`src/state/store.tsx`, `api/client.ts`) | the page's state, epochs of authentication, session and matter, the session's timer | boot, sign in and out, change a password, revalidate, load, switch and open matters, change, refresh | no answer of an earlier session or matter is merged; the page settles on the matter asked for last; a sign-out takes no later sign-in's cookie of the same tab; no wait without a request |
| Browser rules, local mode (`src/domain/*.ts`, `state/persistence.ts`) | browser working copy | the same operations without a server | agree with the server's rules |
| User interface, scripts | none | presentation, operations | |

How they interact. A route authenticates, opens one READ COMMITTED transaction
and calls one service operation; the operation locks rows, applies the domain
rules, writes, and appends to the matter's audit chain through `_append_audit`.
That call is also where approvals are withdrawn: an event that tells of a change
in the evidence resets `approval_current` of every section of the matter.
Packets read everything the other operations write. Administration and
authentication write the same accounts: the first decides who may act on what,
the second which session speaks for whom. An upload asks both twice, before and
after its extraction. The integrity checks read what all operations append. All
interaction between requests is through rows and PostgreSQL's locks, and through
the counts of one process (hashing, bodies, extractions); there are no messages
between processes but those of an extraction with its child. The browser knows
the server by its answers and its cookie only.

## 2. Hard behaviours

`PROJECT.json` lists each hazard at its line. In short:

* *Interleaving.* Requests meet at row locks, the catalog lock, the audit lock
  and a session-level shared lock, taken in different orders by different
  operations. A version on the reviewer's screen is compared after the lock.
* *Stale state.* A packet is rendered from a snapshot with no lock held and must
  be refused if the matter changed. An approval stores a digest of the evidence.
* *Long sequences.* A claim may be in several conflicts that are decided,
  reopened and decided again in any order; preserved conflicts chain claims
  together, and a section's disclosure follows the chain.
* *Retry.* A packet request is repeated with its key while the first still runs.
* *Partial failure.* A statement fails while the session-level lock is held.
* *Unique indexes* back up checks that are made under locks; where a check is
  missing the index turns a legal request into an internal error.
* *Authority.* Whether a matter keeps someone who can administer it depends on
  accounts and memberships, which different requests lock in different orders,
  and on which memberships row-level security lets a check see.
* *Sign-in* reads an account without a lock, then verifies a password for a long
  time, while the password, the factor or the account changes; throttle rows are
  created, swept and locked by many sign-ins at once. A code is presented twice.
* *Uploads* are checked, extracted for minutes with no transaction open, checked
  again and stored; two with one key race; places must come back after a failure,
  a refusal or a restart. The extraction's *child process* may fail, hang, be
  killed or finish too late at every step.
* *Verification while appending.* A verification reads eight tables one after the
  other, and the history grows, or a checkpoint is half written, or removed because
  its writing failed, in between.
* *Late answers* in the browser: of an earlier session, an earlier matter, or a
  sign-out overtaken by a sign-in, while a page is rendered some time after it
  changed and another tab shares the cookie.

## 3. Modules and their correspondence to the code

    ReviewRules          domain/*.py: pure rules
      MatterEvidence     services.py helpers, approval.py, packet.py: what one
        |                operation computes from the rows of a matter
        EvidenceCase     the operations, each alone and at once (the promise)
          |- EvidenceTransactions   the same operations as transactions with
          |                         locks; implements EvidenceCase
          |- MCEvidenceCase, MCEvidenceTransactions   instances for TLC
          |- EvidenceCaseProofs
          |- EvidenceTransactionsProofs
      MatterAuthority    accounts and memberships, as transactions with locks
        |- MCMatterAuthority
        |- MatterAuthorityProofs
    ReviewerSessions     what sign-in, codes and resets promise
      |- ReviewerSecurity       the same as transactions with locks and time;
      |    MCReviewerSecurity   implements ReviewerSessions
      |- ReviewerSecurityProofs
    KeyedUploads         what an upload's key promises
      |- SourceUpload           admission, transactions, races, restarts;
      |    MCSourceUpload       implements KeyedUploads
      |- SourceUploadProofs
    IsolatedExtraction   one document's extraction: parent, child, files
      MCIsolatedExtraction, IsolatedExtractionProofs
    CaseIntegrity        histories, their verification, checkpoints
      MCCaseIntegrity, CaseIntegrityProofs
    BrowserStore         the page, its epochs, its operations under way
      MCBrowserStore, BrowserStoreProofs

**ReviewRules** has the statuses and the precedence of standings
(`decisions.py:17`), the transition of each decision on each selected side
(`transition_for`), eligibility (`eligibility.py:24`), a section's impact
(`report.py:30`), and who may do what (`permissions.py`). Roles, statuses and
decisions are the code's own strings.

**MatterEvidence** has the rows (`ClaimRow`, `ConflictRow`, ... follow
`db/models.py`, columns no property depends on left out) and the functions of
them: `Recompute` is `_recompute_claim_status`, `EvidenceClaims` the breadth-first
closure of `production_evidence_claim_ids` as the least set closed under
preserved conflicts, `EvidenceState` the content that `evidence_state_sha256`
hashes, `BuildPacket` the partition of `build_packet`. A hash is represented by
the value that is hashed: two digests are equal when their contents are.

**EvidenceCase** has one matter as six variables and one action for each
operation: `IngestSource`, `CreateClaim`, `VerifyQuote`, `FlagConflict`,
`Decide`, `DraftSection`, `ReviseSection`, `ApproveSection`, `GeneratePacket`.
An action's guard is the conjunction of the operation's early returns; its
effect is everything the operation writes, the recomputation of claims and the
withdrawal of approvals included; `events` is the length of the audit chain, so
an action adds as many as the operation calls `_append_audit`. The matter may
begin at any `Opening` that the operations could have produced.

**EvidenceTransactions** executes each request as a transaction. `req[r].at` is
where the operation's code has got to, `req[r].tx` what it has written and not
committed, `held[r]` its transaction-level locks, and `reading` the holders of
the packet's session-level shared lock. A statement reads the committed rows
(READ COMMITTED) overlaid with its own writes. `Arrive` fixes the version the
reviewer's screen shows (`req[r].expected`). Row locks on claims are taken one at a time in
identifier order (`_lock_claim_rows`), the audit lock before an event is
appended, and sections are locked one at a time by the `UPDATE` that withdraws
approvals. A packet looks for a replay, takes the shared lock, reads the audit
root, reads the rows, releases, renders, takes the audit lock, looks again, and
compares the root before it records. Unique indexes are checked where the
transaction commits: the check a transaction fails earlier, at its flush, aborts
it just the same, and nothing it wrote is ever visible. `CancelDeadlocked` is
PostgreSQL's deadlock detector. The refinement mapping is the identity on the
matter and the length of the audit log.

**MatterAuthority** has the accounts (`Reviewer`), the memberships
(`CaseMember`), the matters, the account audit chain, and each administrative
request as a transaction. `tx.todo` is the list of locks a statement is waiting
for, in the order the statement takes them, and `tx.then` the step that follows.
`set` and `remove` are `set_case_member_admin` and
`deactivate_case_member_admin` (which reads the role it will write before any
lock), `suspend` and `reinstate` `set_reviewer_active_admin`, `provision`
`create_reviewer_admin`, `open` `create_matter_op` with
`atlas_argus_create_matter`, `restore` the operator's command. An insertion
takes the shared locks its foreign keys take on the rows they refer to, which an
account locked `FOR UPDATE` keeps waiting, and a place in its unique index,
which only another insertion in flight holds. `SELECT ... FOR UPDATE` locks the
rows its snapshot shows (`tx.locked`, `tx.seniors`), in order, and a row inserted
meanwhile is not among them. `secured` says whether row-level security applies:
to the runtime role of production it does, to the owner of the schema, whom the
tests connect as, it does not. `Arrive` stands for `require_mfa_admin_reviewer`
and the service's first look at the membership; reads that follow one another
with no lock and no write between them are one step (in `RestoreAccess` the
reviewer and the effective members). The restore's own event goes to the matter's
audit chain, which is EvidenceTransactions'. The revocation of sessions that goes
with a suspension is ReviewerSecurity's: a request arrives here only from an
active account.

**ReviewerSessions** is the promise: accounts with a password and a factor, both
numbered in the order they were set, the sessions, and the codes accepted. An
operation is one step. `SignIn` says what a sign-in may rely on: a password the
account has, or had while the request was on its way, for `login` verifies it
before it writes.

**ReviewerSecurity** carries the same out as transactions: `Arrive` is the route
with its session resolved; `PurgeDeadSessions`, `SweepStaleThrottle`,
`AdmitSource`, `CheckName`, `StartHashing`, `FinishHashing`, `MintSession` are
`login` in its order; `LockReviewerSecurity` is `lock_reviewer_security` (an
advisory lock that is tried, then the account's row); `StartMfaEnrollment`,
`CheckFactor`, `AttemptCode`, `MarkMfaVerified`, `ChangePassword`,
`ResetPassword`, `ResetFactor`, `RevokeSessions` follow it. `SetReviewerActive`
locks the accounts of all `Seniors` in the order of their identifiers and looks at
the administrator's own again, before it locks the one it is about.
`AppendAccountAudit` takes the audit lock and then the account of the administrator
(the call's `by`) in shared mode: the event's foreign key refers to it
(`db/models.py` 147-154), so the insertion waits for whoever has that row `FOR
UPDATE`. The key to the subject's account waits for nothing, since the request has
that row itself. Who is a Senior does not change here.
`UpsertThrottleRow` and `LockThrottleRow` are the two statements of
`_throttle_row`: the insertion waits for one in flight, the locking read for the
row's holder, and a row swept meanwhile is not found. `Tick` lets time pass, in
periods of a code; `tx.time` is the moment a request read the clock. A transaction
that ends in a `DomainError` of a sign-in or a code commits its counts, any other
rolls back. `Openings` are the states a run begins with, each with what is asked
and bounds of its own. The refinement drops throttle rows, locks and expiry.

**KeyedUploads** is the promise: a key stores one source, and whoever is answered
under it is told that one.

**SourceUpload** is one request from its admission to its answer.
`TakeBodyPlace` is the middleware of `api/app.py` and `source_body_admission`,
`ReceiveBody` the deadline and the limit of the body, `Authorize` and `LookUp` the
first transaction (`prepare_source_upload`, `_idempotent_replay`),
`TakeIngestionPlace` the second admission, `Extract` what IsolatedExtraction shows
of an extraction, `AuthorizeAgain`, `InsertFile`, `AppendAudit`, `Commit` the
second transaction (`create_source_op`), whose unique index waits for a row of the
same key in flight, and `AuthorizeLoser`, `ResolveRace` the third
(`resolve_idempotent_race`). `FailStatement` fails whichever statement comes next,
`ChangeAccess` withdraws a session, a membership or a clearance and gives it back,
`StopServer` ends every request and the counts with it. Access is one record for
each reviewer: what MatterAuthority and ReviewerSecurity leave of it.

**IsolatedExtraction** has the request that waits (`run_isolated_extraction`), the
child that extracts page by page (`extract_pages`) and leaves its result by a
rename, the helper it runs for OCR, the pipe and the directory. The child may die
at every step (`ChildDies`), or do nothing for ever; the parent's poll may time out
while the result is being renamed. `KillGroup` is `_kill_process_group`, which
finds no group before the child has led one (`parent.missed`). A text is so many
characters of a width in UTF-8 and in JSON, so that cutting, the two limits and
the size of the result are computed; whether a page looks like a scan, is
rendered and is read by OCR follows the code's own conditions. A result the
parent parses is one the child wrote; `CheckResult` makes every check of
`_parse_result_payload`.

**CaseIntegrity** has the five histories with their hashes. `Operate` appends what
an operation appends; `ReadTable` reads one table of `compute_case_integrity`
after the other. `FindLatestAnchor` and `CheckLatestAnchor` are
`verify_latest_anchor`, which lists the directory and then reads the last file; that
may have been written, or removed, in between. `OpenAnchor`, `WriteAnchor` and
`SyncAnchor` are the job (`create_anchors`, `write_anchor`): its file exists, empty,
before it is written, and can be read in full before it is on the disk. `FailAnchor`
is a write or a flush that fails, upon which the file is removed (`there` becomes
false), and `StopJob` a job killed in between, or unable to flush the directory,
whose file stays as it is. Files are numbered in the order they are opened, and
their names sort in the order of their times: two jobs of one matter at once are
taken to open theirs in that order. What fails before the file is opened changes
nothing. `Alter`, `Lose`, `Rewrite` and
`Restore` happen to the database behind the application: a row changed and not its
hash, a document's bytes lost, the last event changed and hashed anew, the
database restored to an earlier operation: of each ordered table what it began with
(`Earlier`), of the others the rows of the operations kept. The opening is a history
such as operations make (`InOrder`), of any length. A hash is the content it is of. The
status "internal" is the model's name for an answer that is not ok though the
checkpoint matches. Columns that no hash covers are not modelled. That concurrent operations append to a chain one at a time is
EvidenceTransactions'.

**BrowserStore** has the state of the store (`page`), what is rendered of it
(`seen`), the refs (`epochs`), and the operations under way (`ops`), each with the
scope it captured (`captureSessionScope`, `captureCaseScope`) and the request it
awaits. Each action that takes an answer is what the store does from one `await`
to the next: `BootAnswered`, `LoginAnswered`, `CasesAnswered`, `CaseAnswered`,
`PostAnswered`, `RefreshAnswered` (`staleWriteFailure`), `CreateAnswered`,
`PasswordAnswered`, `CheckAnswered`, `LogoutAnswered`. Rendering is a step of its
own, so a second click may come before the first is rendered; that is more than
React's batching allows, never less. The server and the cookie are external: an
answer is one the server may have given since the request was sent, a request
carries the cookie the browser has by then. Other tabs of the browser run the same
store with refs of their own and share the cookie and its session: one may sign in
(`OtherTabSignsIn`), sign out, at any time and however late its answer
(`OtherTabSignsOut`: the cookie is cleared whatever session it names), or change a
temporary password (`OtherTabChangesPassword`). `tabs` remembers whether any has
signed in or out. The revocation that goes with a sign-out is one of the ends of a
session (`SessionEnds`). `held` is what the rows on screen were answered to: which session,
which matter. Not modelled: reads that only show (lists, downloads), the screen of
the second factor, an answer for another matter than was asked for (the client
refuses it), and the list of matters. `Temporary` ties a forced password change to
one of the reviewers. `started` bounds the operations and the sign-ins and sign-outs of other
tabs together (`MaxOps`), `MaxSessions` the sessions.

Abstractions of the evidence modules, all of them: titles, texts, custody records, timestamps,
pagination and serialization are left out; a paragraph reference is compared as
one value (the code compares it without case); a quote's comparison with its
page is one of the outcomes `evaluate_quote` may return; identifiers are drawn
from a set, as the code draws them from a sequence; the reviewers are members of
the matter throughout, as membership is another component's state.

## 4. Runs: what TLC checks

| Run | Instance | Shows |
| --- | --- | --- |
| `fresh_matter` | 2 reviewers, 2 claims, 1 conflict, 2 sections, 2 sources, up to 5 audit events, 2 packets | types; distinct paragraphs and positions; independent attestation; one packet per key |
| `disputed_matter` | 3 claims in a chain of two conflicts (one preserved, one open), a third conflict free, a withheld claim, an unattested quote, one section, 7 audit events | standings follow all conflicts; one open conflict per pair; approvals current; production candid; losers stay out |
| `transaction_pairs` | any 2 of 14 requests, one or more of every kind | refinement of EvidenceCase; no check comes after its index; every request is answered |
| `transaction_triples` | any 3 of the same 14, and the snapshot of a packet may fail | chains do not fork; nothing is overwritten unseen; deadlocks need a section row |
| `authority` | any 3 of 17 administrative requests; 3 accounts and one to be provisioned, whose number is the smallest; 3 matters (one shared by two Seniors, one with a single Senior, one stranded) and one to be opened; with row-level security and without | an active Senior account remains; matters keep an effective Senior unless a suspension overlooks them; suspensions by active administrators; the account chain; where deadlocks come from |
| `security` | three accounts, two of them Seniors', and a name nobody has; four openings: 3 requests about an account with a factor, 3 about one without (suspended meanwhile), 3 of two Seniors about each other's account and the third, and 2 sign-ins from 2 sources over 3 code periods; limits of 2 failures, 1 attempt a source, 1 hashing slot | refinement of ReviewerSessions (codes once, sessions revoked with every change); verified by the current factor; no guess during a lockout; where deadlocks come from |
| `extraction` | documents of up to 3 pages of 12 kinds and of 4 pages, unreadable and empty ones; limits of 3 pages, 3 bytes a page, 5 a document | nothing lost unsaid; honest results accepted; nothing left behind; every extraction ends |
| `uploads` | 3 uploads of 2 reviewers, a retried key, a withheld document; 2 places, 1 change of access, 1 restart | refinement of KeyedUploads; places; nothing stored on a stale decision; losers reconciled; every upload ends |
| `integrity` | 1 verification, 1 job, a history with a document and 2 operations more, 1 damage, a limit of 2 rows | untouched histories verify; alterations are found; what was signed is retained; no false alarm |
| `browser` | 2 reviewers, one of them with a temporary password, 2 matters, 4 operations or sign-ins and sign-outs in other tabs, 2 sessions | the page settles on what was asked for last, in its session; the cookie is the page's, or none when another tab has signed out; no wait without a request |
| `snapshot_lock`, `widened_role` | 2 requests | violated, see section 6 |

Why the bounds are enough. An operation reads at most two claims beyond those a
conflict names, so a chain of three claims is the shortest on which the direct
counterparts differ from the closure, and two conflicts on a claim the fewest on
which the last verdict differs from the derived one; the third conflict lets a
pair be flagged anew while its first conflict is decided. Seven audit events let
a conflict be decided, reopened, and decided again (a decision appends three
events at most) or a section be approved, disturbed and approved again. The
locks relate pairs of requests, and cycles among three are covered by the
triples. Of administrative requests three are needed: two administrators can suspend each
other unnoticed only after a third request has left them no matter in common.
Three requests about one account are a sign-in between its reading and its
session, a change of credentials, and a request that holds what either wants. Rows of
two accounts meet in the throttle row of a source and in the purge, which one
account's sessions show, and in the audit event of an administrator, which refers to
his own account while he changes another's: for that there are two Seniors and an
account that is none's. Three code periods let
a lockout begin and elapse, and a row go stale. Three pages are the least on which
the limit of a document cuts one page and leaves nothing for the next. Three
uploads give two places a loser, and a key's race a third that comes when it has
been decided. One damage is enough for properties that speak of the first one;
a job's run between two reads of a verification needs one job. In the browser
fewer than four operations miss the states that matter: an operation under way, a
sign-out or an expiry, a sign-in, and the late answer's counterpart in the new
session.
The proofs then remove the bounds from the properties of `EvidenceCase`,
`EvidenceTransactions`, `ReviewerSessions`, `ReviewerSecurity`, `KeyedUploads`,
`SourceUpload`, `IsolatedExtraction`, `MatterAuthority`, `CaseIntegrity` and
`BrowserStore`, of `CaseIntegrity` also the number of damages and the limit of rows.

Each property has a mutant: a definition the model is built from, changed the
way a plausible slip in the code would change it (a direct counterpart for the
closure, a version compared before the lock, an event appended without the audit
lock, ...), under which TLC finds the property violated.

Deadlock in TLC's sense is not checked: a matter at its bound of events, or one
whose requests have all been answered, has no further step.

## 5. Fairness

* `transaction_pairs` and `widened_role` assume `WF(Step(r))` for each request. The
  server runs a transaction to its end unless a lock stops it; PostgreSQL grants a
  lock when its holder is gone and cancels a transaction of every deadlock
  (`CancelDeadlocked` is part of `Step`). Arrival is not fair, and neither is the
  failure of a snapshot. Weak fairness is enough because no two requests compete
  again and again for one lock: each arrives once.
* `extraction` assumes `WF(ParentStep)` only: the request's own code runs on, and
  its waits have deadlines (`AwaitStatus` may time out, `JoinChild` and
  `KillLateChild` end a child that does not). Nothing is assumed of the child.
* `uploads` assumes that some request with a step takes one (`WF` of the steps of
  all requests together): a body has a deadline, an extraction ends by
  `EveryExtractionEnds`, a row in flight is committed or rolled back. Arrival,
  changes of access, and restarts are not fair.
* `browser` has no fairness. `LoadingIsAwaited` says without it what a reviewer
  would wait for: whenever the page says that it loads, a request is out whose
  answer it takes; every request is answered or aborted after
  `REQUEST_TIMEOUT_MS`.

## 6. Disagreements with the documentation

Two are runs that end in a violation:

* `snapshot_lock`: the shared lock is to be held "only while reading packet
  state". When a statement of the snapshot fails, the release runs in an aborted
  transaction and fails too, and the lock stays with the pooled connection.
* `widened_role`: a removal that waits for the membership locks writes back the
  role it read before, over a narrowing committed in between; reactivation then
  restores the wider role, which the code's own comment and a test rule out.

The others were met while modelling. Properties state them as exceptions, or the
model shows them when the exception is taken away.

*Evidence.*

* The follow-up review asks for one case-lock order and reports its findings as
  addressed. A revision or an approval still locks its section row before the
  audit lock, and every change of evidence the audit lock before the section rows.
  The two wait for each other, PostgreSQL cancels one, and the cancelled one is
  answered as an internal error, since only `DomainError` has a handler.
  `CyclesNeedASection`, proved as `CyclesHaveASection`, says that no other cycle
  exists.
* The readiness document has the transaction lock held "while reading and
  appending" a packet. The code renders without it and refuses a packet whose
  matter has changed, which `ImplementsEvidenceCase` shows to be as good.
* Reopening a decided conflict whose pair was flagged again is stopped by the
  unique index alone, hence answered as an internal error
  (`ChecksComeBeforeIndexes`).

*Authority.*

* Deactivating the last Senior of a matter is to be rejected, and a test is named
  for it. The matters affected are read through row-level security, which hides
  those the suspending administrator is not in, so in production (not in the
  tests, which connect as the owner) the check passes.
  `deploy/matter-access-recovery.md` describes the outcome as reachable. It is the
  first exception in `Overlooks`. The same blindness reaches a change of membership
  that counts on another Senior: it locks his membership and reads his account
  without a lock, and a suspension that does not see the matter takes the account
  away before the change commits (`CountsOn`). A suspension that sees the matter
  waits for the locked membership.
* "A matter can never be created stranded" (migration 0018, line 94). Its creator
  may be suspended between the function's look at the account and the commit.
* The operator's restore reads the account without a lock, so a suspension that
  had already looked at its matters can undo the restore as it commits (the second
  exception in `Overlooks`).
* A membership request of an administrator suspended meanwhile is still carried
  out; two first admissions of one reviewer end in an internal error for the
  loser; suspensions and membership changes deadlock (`CyclesNeedAnAccount` says
  where).
* Two suspensions, or a suspension and a reinstatement, lock the Senior accounts in
  the order of their identifiers, which was meant to keep them from deadlocking. An
  account's identifier is random (`_reviewer_id`, services.py:75), so one that is
  provisioned after the first has locked those there were may come before them: the
  first, which names it, waits for it last, the second holds it and waits for an
  earlier one's (`ProvisionedSince`). PostgreSQL cancels one of them.

*Authentication.*

* The comment of `_throttle_row` (auth.py:204) says that the upsert and the locking
  read keep two first attempts from an error of 500. The sweep of another sign-in
  may delete the row between the two statements; the read then finds none and the
  request fails (the reply "no row").
* A sign-in verifies the password it read, and opens its session after a rotation
  or a reset has revoked those there were: the session of the old password stays
  (auth.py:315). `SignIn` of ReviewerSessions says so, and its mark of a verified
  factor is still that of the new one.
* The purge of a sign-in locks dead sessions before it shares the account's row, a
  change of credentials the account before the sessions: the two deadlock. So do two
  administrators who reset, suspend or reinstate each other: the audit event of one
  refers to his own account, which the other has locked, and it is inserted under the
  audit lock that the other waits for. `lock_reviewer_security` tries its advisory lock
  so as not to wait, and takes the row after it, which does.
  `CyclesNeedASignInOrAnActor` says that there is no other cycle.

*Upload and extraction.*

* `extract_pages` "never raises for a single bad page", but a text with a lone
  surrogate cannot be encoded, and `_bounded_page_text` is outside the `try`. The
  model takes texts to be encodable.
* `ExtractionError` and `UnreadableDocument` are caught neither by the route nor by
  a handler in `api/app.py`: a document that cannot be read is answered as an
  internal error.
* A child that ends by itself may leave its helper running, and one not yet leading
  a group is not killed (the exceptions of `NothingLeftBehind`).

*Integrity.*

* `docs/api-contract.md` (449-452) says that checkpoints "detect database
  rollback". Once a rolled-back history has been signed by the next run of the job,
  which compares it with no earlier checkpoint, verification matches again.
  `SignedHistoryIsRetained` is about the latest checkpoint at the time.
* An alteration that is followed by a rewrite of the same last event, which hashes the
  altered row anew, is no longer found by the hashes: `AlterationsAreFound` is about
  histories in which no hash was made anew. If the event had been signed,
  `SignedHistoryIsRetained` speaks.
* A verification fails while a checkpoint is being written, also if that file is then
  removed because it could not be written, and until the next one if its job was
  killed and left it empty (the exceptions of `NoFalseAlarm`).
* A stored document whose file is missing leaves the member proof incomplete, and
  `checkpoint_from_verification` raises: the verification that should report it is
  answered as an internal error.

*Browser.*

* A refresh after a refused change (`staleWriteFailure`) may have been read before
  a newer change of the same reviewer and replaces its rows when it arrives later;
  a flag's answer that arrives after a refresh lists the conflict twice.
  `docs/codebase-review-2026-07-18.md` (146-148) speaks of "independent
  latest-request/error state" for mutations. The rows are of the right session and
  matter, which is what `ShownBelongsHere` says.
* After "Retry" while a matter is being opened, the former matter stays on screen
  until the list is loaded, since `session_established` does not set the status to
  loading. `ShownBelongsHere` therefore speaks of a page for which nothing is
  loading.
* When another tab signs in a reviewer whose password has to be changed, the page can
  come to its session (a "Retry", whose boot is answered for the new cookie, or a
  check of the session) while the screen of the page before is still there. A click
  meant for that screen, on the link that asks for a change of password or gives it up,
  or an answer to a voluntary change, then clears the status that forces the change
  (`dismissPasswordChange`, `changePassword`, store.tsx:1896, 1104): the page opens
  with what it holds of the earlier session until something is loaded. The server
  still refuses what the reviewer asks for, so nothing new is shown.
  `RotationElsewhere` excepts these pages; it takes five operations, one more than the
  run has, and was found when the invariant was proved.

## 7. Proofs

Of `EvidenceCase`, for every number of reviewers, claims, conflicts, sections,
sources, events and packets and every opening that is in order. They assume
`ConstantsAssumption` (roles and privileges are the code's; identifiers are not
the "none" values; bounds are naturals) and `OpeningAssumption` (the opening
matter is well formed, its standings are derived, its pairs distinct, its
approvals current...), which TLC evaluates on the openings of the runs.

| Theorem | States | Argument |
| --- | --- | --- |
| `TypeCorrectness` | `[]TypeOK` | the invariant is `Typed == TypeOK /\ HasLastSection`: the next position is one past the last section's, so it is a number only if there is a last one |
| `StandingsCorrect` | `[]StandingFollowsConflicts` | an operation that changes a conflict recomputes both its claims; no other claim's conflicts change |
| `PairsCorrect` | `[]OneOpenConflictPerPair` | a flag checks the pair, a reopening is guarded by the index |
| `LosersCorrect` | `LosersStayOut` | a lost standing has a smaller precedence than any that would let the claim in; needs the derived standings |
| `AttestationsCorrect` | `[]AttestedBySecondReviewer` | only an attestation makes a quote manually verified, by a cleared reviewer who is not the author |
| `ParagraphsCorrect` | `[]ParagraphsAreDistinct` | references are checked, and the next position exceeds all |
| `KeysCorrect` | `[]OnePacketPerKey` | a used key records nothing |
| `ApprovalsCorrect` | `[]ApprovalStandsOnCurrentEvidence` | an operation either leaves the evidence of a section as it was or withdraws its approval |
| `CandourCorrect` | `[]ProductionIsCandid` | from the approvals, the standings and the dispositions each conflict status comes with: an included section's claims are usable, a usable claim is eligible, an eligible claim is undisputed and verified, and the closure of the evidence contains all that is disclosed |

Of `ReviewerSessions`, for every number of accounts, sessions and code periods,
stated of `Promised`, its instance in ReviewerSecurity (in `ReviewerSecurityProofs`), with
no further assumption:

| Theorem | States | Argument |
| --- | --- | --- |
| `SessionsTyped` | `Promised!Spec => []Promised!TypeOK` | each operation writes typed rows; a session's account exists |
| `FactorCorrect` | `Promised!Spec => []Promised!VerifiedByCurrentFactor` | the invariant adds the types and that an enabled factor is there; a factor is prepared only where there is none, so nobody is verified by it yet, and a reset revokes every session it would leave verified |

These two groups are about promises. The groups that follow carry promises over to the
transactions, and add the proofs of authority, of extraction, of integrity and of the browser.

Of `ReviewerSecurity`, for every number of requests, accounts, names, sources,
sessions and code periods and every limit. They assume `SecurityAssumption` (calls
have the arguments the routes take, the limits are positive, and a throttle row outlives
the periods in which its code could be presented again) and
`OpeningAssumption` (the accounts, factors and sessions to begin with are tables of
rows in order), which TLC evaluates on the four openings of the run.

| Theorem | States | Argument |
| --- | --- | --- |
| `SecurityTyped` | `[]TypeOK` | part of the invariant |
| `FactorsCurrent` | `[]VerifiedByCurrentFactor` | the invariant of the promise (`PromiseInv`), of the committed rows |
| `GuessesCounted` | `[]NoGuessWhileLocked` | who hashes a password holds the row of its name, and found it open |
| `SecurityRefines` | `ImplementsReviewerSessions` | a commit is one operation of the promise or leaves what it sees; every other step leaves it |
| `CyclesHaveASignInOrAnActor` | `[]CyclesNeedASignInOrAnActor` | below |

The invariant `IInv` says of each request at each step what it has locked and waits
for, which rows it has read, and that those it changes are still as it read them,
because it has their account's row (`Orderly`, `Together`); that a hash is computed
only by who holds a throttle row (`Hashing`); and that a factor that is referred to is
there (`FactorsThere`). TLC checked it on every state of the run, opening by opening.
The argument of `CyclesHaveASignInOrAnActor`. Take a cycle without sign-ins. Who is
waited for in it has its account's row (it is `Past`), or is a suspension or a
reinstatement on its way through the accounts of the Seniors (a `Climber`); anyone else
holds nothing that another waits for (`BlockersArePast`). Two climbers hold the first
Senior's account, so there is one at most (`ClimbersAreOne`), and a request never waits
for itself: somebody waited for is `Past`. Such a request, if it does not wait for the
audit lock or for the administrator's account, waits for the sessions or the throttle
row of its own reviewer, which no other `Past` or climber holds: so it is an
administrator's that waits for one of these two (`PastRecord`). If for the audit lock,
its holder is one that inserts its event (`Recording`; `ChainIsHeldRecording`). So
somebody waited for is inserting, and who keeps him waiting has his account's row
(`ActorIsHeld`): this is the pair that the property names.

Of `SourceUpload`, for every number of uploads, reviewers, keys, places, changes of
access and restarts. They assume `UploadAssumption`: there are identifiers for all
that may be stored, as a sequence gives them out, and there is at least one place.

| Theorem | States | Argument |
| --- | --- | --- |
| `UploadsTyped` | `[]TypeOK` | part of the invariant |
| `PlacesCorrect` | `[]PlacesAreHeld` | `Counted`: each count is the number of requests at the labels between the place being taken and given back; every step moves one request |
| `DecisionsCorrect` | `[]NothingStoredOnAStaleDecision` | `DecisionStands`: a request whose access was withdrawn has not passed its second check, and its reviewer is not a member now |
| `LosersReconciled` | `LoserIsReconciled` | `RaceHasWinner`: a request that resolves a race has a committed row under its key |
| `OneSourceCorrect` | `Promised!Spec => []Promised!OneSourcePerKey` | of KeyedUploads alone: a source carries its upload's key, no two sources have one, and an answer matches its source |
| `UploadsKeepPromise`, `UploadsImplement` | `ImplementsKeyedUploads`, `Spec => Promised!Spec` | a step is `Ask`, `Store` or `Answer` of the promise, or changes nothing the promise sees; `Store` needs that no stored source has the key, which the row in flight, alone with its key (`RowsApart`), and the index give |
| `OneSourceUploaded` | `[]Promised!OneSourcePerKey` | `OneSourceCorrect` of the promise, through the refinement |

Of `IsolatedExtraction`, for documents of any number of pages and texts of any length,
and every limit. They assume `ExtractionAssumption` (documents are what pypdf can make
of an upload, a character takes at least one byte, and there is at least one page, and
one byte of text, to extract), which TLC evaluates on the documents of the run.

| Theorem | States | Argument |
| --- | --- | --- |
| `ExtractionTyped` | `[]TypeOK` | `PagesPassed`: the child's count of bytes is the total of the texts it has recorded |
| `LosesNothingUnsaid` | `[]NothingLostUnsaid` | `PagesPassed` and `StatusEarned`: each page recorded is in its place and marked when its text is not all there was, and only a child that has recorded all reports success |
| `PassesHonestResults` | `[]HonestResultsPass` | each text is cut to what is left of both limits, never inside a character (`CutFits`, `PageRecorded`), so the total stays within the document's, and nothing is recorded once the status is sent |
| `LeavesNothingBehind` | `[]NothingLeftBehind` | `HelperBesides`: a helper runs only beside a child that leads a group, or is left by its death; `CleanedUp`: once the request has killed what it could, a child not missed is gone and what is removed stays removed |

The total is a recursive function of the pages. That it is one more page's bytes larger
after one more page (`TotalGrows`) needs no induction theorem: running totals exist and
are unique because there is no least length at which they fail to (`RunningTotals`,
`TotalIs`, from `Least`). `IInv` was checked by TLC on all documents of the run before
it was proved.

Of `EvidenceTransactions`, for every number of requests, claims, conflicts,
sections and reviewers. They assume `RequestsAssumption` (calls have the arguments
the routes take, and the bounds on events and packets leave room for every
request, so that no operation is stopped by a bound), `CaseAssumption` (the
assumptions of EvidenceCase, and that the opening tables are tables) and
`ClaimsAssumption` (numbers stand for the identifiers of claims, whose rows are
locked in that order).

| Theorem | States | Argument |
| --- | --- | --- |
| `TransactionsImplement` | `ImplementsEvidenceCase` | below |
| `ChainsCorrect` | `[]ChainsNeverFork` | `Chained`: the events are read and appended under one lock |
| `NothingUnseenOverwritten` | `[]NothingOverwrittenUnseen` | `Chained`, `Descended`: what a decision or a revision replaced is an earlier version than the row's present one, and no two replaced the same |
| `ChecksAreEnough` | `[]ChecksComeBeforeIndexes` | what each operation checked under its locks still holds when it commits |
| `CyclesHaveASection` | `[]CyclesNeedASection` | `Standing`, below |
| `PairsStayDistinct`, `ApprovalsStayCurrent`, `ProductionsStayCandid` | `[]Case!OneOpenConflictPerPair`, `[]Case!ApprovalStandsOnCurrentEvidence`, `[]Case!ProductionIsCandid` | the theorems of EvidenceCase, through the refinement |

The argument of `TransactionsImplement`. No property of the committed rows alone
is inductive, because a transaction writes what it read many steps earlier. The
invariant `Ordered` therefore says of each request, operation by operation and
label by label (`Deciding`, `Flagging`, `Packing`, ...), which locks it has, what
it has checked, and that what it has written is what the operation computes from
the rows *as they are now*; `Local` joins them. Two kinds of lemma make it
inductive. A request's own step takes it from one label to the next. A commit of
another request changes the rows, and leaves what this one relies on, because of
the lock this one holds: the row lock on its conflict, its claims or its section,
the lock on the catalog of sections, or the audit lock, without which no event is
appended; a packet that was rendered without any is the packet of the present
rows as long as the audit root is the one it began at. `LocksExclusive`,
`NewIdsApart` and `UploadsApart` say that requests keep off each other's rows and
identifiers. At the commit `Ordered` says that the pending rows are those of the
operation of EvidenceCase on the committed ones, so the commit is that operation
(`FlagPublished`, `DecidePublished`, ..., `PublishImplements`), and every other
step leaves the committed rows alone. The other half of the invariant is
EvidenceCase's own `Typed`.
The argument of `CyclesHaveASection`. `Standing` says of each request where it stands
for each lock it holds: past the label at which that kind of lock is taken; that only
a revision or an approval holds a section row before the audit lock; that a request
in the middle of its claims has locked those smaller than all that are left; and that
whoever holds the shared audit lock reads, or has failed. In a cycle without the pair
that the property names, nobody waits for section rows to withdraw approvals, for
both that request and its holder would hold the audit lock. So nobody waits for the
audit lock, and in turn for the catalog, for a section to revise and, once the claims
are dealt with, for a conflict. Those that wait for claims wait for one another, each
for a smaller claim than its holder, and finitely many of them have a greatest
(`Greatest`, by the least-number principle, which the library's well-founded
relations give without an operator for a parameter).
The theorems of EvidenceCase are taken with the audit log's length for `events`;
the lemmas named `Kept...` and `Case...` say that the definitions they speak of
are the same under both instances.

Of `MatterAuthority`, for every number of reviewers, matters and requests, with and
without row-level security. They assume `AuthorityAssumption` (reviewers and matters
are finite sets of numbers, and calls have the arguments the routes take) and
`OpeningAssumption` (the accounts and memberships to begin with are tables of rows,
and one account is an active Senior's).

| Theorem | States | Argument |
| --- | --- | --- |
| `Invariance` | `[]IInv` | below |
| `AuthorityTyped` | `[]TypeOK` | `RowsTyped`; a request at a lock has one to take |
| `AccountRemains` | `[]AnAccountRemains` | who commits a suspension is an active Senior, has his own account locked, and is not the one suspended |
| `AccountChain` | `[]AccountChainNeverForks` | the hash is read and the event appended under the audit lock |
| `RuledByTheActive` | `AccountsAreRuledByTheActive` | he was looked at again under the lock of his account, which he still has |
| `MattersKept` | `MattersKeepASenior` | below |
| `CyclesHaveAnAccount` | `[]CyclesNeedAnAccount` | below |

The argument of `MattersKept`. Two kinds of request may take a Senior from a matter,
and they guard different rows: a change of membership locks the matter's memberships
and only reads accounts, a suspension locks accounts, then the memberships of the
matters it sees. `IInv` says of each request at each step what it has locked or waits
for (`Claimed`), and what it has found that is still so. A change has counted
(`Counted`) on a Senior whose membership it has locked: since a suspension of that
Senior has to lock the same membership, it cannot commit meanwhile unless it overlooks
the matter, and then it is among the `Unseen`. A suspension has found for each matter
of its target (`Ruling`) another Senior with locked account (`Replaced`): he cannot
be suspended meanwhile, and he cannot be demoted or removed either, because the audit
event of a change refers to the account of its subject and its foreign key waits for
that lock. So `Guarded`, what the locks of one request keep of the rows while another
commits, joins accounts to memberships: the row lock of an account keeps its
memberships too. Only the operator's command appends no such event (`Restored`), and
it only makes Seniors. `Nested` says that of two changes of one matter one has locked
all that the other has, since memberships are never deleted and each change locks all
that its snapshot shows; both have locked a common row, so only one can be past its
check. `IInv` was checked by TLC on three requests before it was proved.

The argument of `CyclesHaveAnAccount`. A request may wait at any moment for one row of
many, and cycles have any length, so what is needed is an order that every request
climbs. `Level` numbers the kinds of lock as the operations take them: what a restore
or a new account's name locks, the matter, accounts, memberships, the place of a new
row, the audit lock. `Climbing` says that a request that waits for a lock holds only
locks that come before it (`Precedes`: of a smaller level, or of the same level and a
smaller matter and reviewer), but for the locks its foreign keys take in shared mode
and the account a suspension is to change, if it is not among the Seniors it locked.
The former and, where the account has become a Senior's, the latter are the exceptions
of the property. In a cycle without them the holder of every lock that is waited for
waits for a greater one, and of finitely many one is the greatest (`Greatest`). `Climbing` is itself an invariant, proved beside
`IInv` with one lemma for each action, and was checked by TLC before.

Of `CaseIntegrity`, for every number of verifications, runs of the job, sections,
operations and damages and every limit of rows. They assume `IntegrityAssumption`
(verifications and jobs are different, bounds are naturals) and `OpeningAssumption`
(the opening is a history in order: its rows say what was written, it verifies, ids are
not used twice, each section's active revision is its tip), which TLC evaluates on the
opening of the run.

| Theorem | States | Argument |
| --- | --- | --- |
| `UntouchedVerifies` | `[]UntouchedHistoriesVerify` | `Untouched`: whatever a reader will have read verifies, and every row counted has its member (`SoundIsComplete`) |
| `RaisesNoFalseAlarm` | `[]NoFalseAlarm` | `Untouched`: all that was signed is contained in what he will have read, and what contains a history does not contradict its checkpoint (`NothingContradicted`) |
| `RetainsWhatWasSigned` | `[]SignedHistoryIsRetained` | of two histories that verify, members with equal hashes are equal rows, as a hash is what was hashed (`SignedIsRetained`); this holds after any damage |
| `FindsAlterations` | `[]AlterationsAreFound` | `Altered`: whatever a reader who began after the damage will have read has a row that is not the one hashed, and then does not verify (`AlteredFails`) |

The argument. A verification reads eight tables at eight moments, so nothing that it has
read is, in general, a state the database was in. The invariant is about `View(at, read,
d)`, what a reader at the step `at` will have read if nothing changes any more: the
tables he has got to as he read them, the others as they are now. Reading a table
leaves the view as it is (`ViewStays`), and at the last step it is what was read; so
only the steps of others matter. An operation makes the view a *blend* of the old view
and of the new history (`ViewBlends`): each of the chains and lineages is that of one
moment, and the pages and files are those of the runs that were read, whenever they were
read, because a document's run, pages and file are stored together and never changed.
A blend of two sound histories is sound (`BlendIsSound`), as verification compares no
two chains. That an operation leaves the history in order is `OrderGrows`, one lemma
for each table. Damage is answered by `Altered`: hashes are those of what was written
(`Authentic`), so a row that was altered differs from its hash, and neither an append
nor a further alteration makes it agree again (`FaultsStay`). `Core` has the types, that
a complete checkpoint is of a history that verified, that a job's file is its own and
there while he writes it, and that a file removed stays away.
TLC checked all three parts on the instance of the run with one operation fewer, and
with both operations but without damage.

Of `BrowserStore`, for every number of reviewers, matters, operations and sessions.
They assume `BrowserAssumption`: nobody is not a reviewer.

| Theorem | States | Argument |
| --- | --- | --- |
| `StoreTyped` | `[]Typed` | part of the invariant |
| `ShownIsWhatBelongs` | `[]ShownBelongsHere` | `ReadyBelongs`: a page that is ready shows what was asked for last, unless an operation is under way that loads a matter and reports it when that fails |
| `CookieStays` | `[]CookieIsOfThePage` | `OpenedHere`: as long as no other tab has signed in, the cookie names the session opened last or none, and the page is of that session; `NamesThisSession`, `BootsHere`: a boot, a check and a change of password whose answers count were sent with the cookie there is now; `SignInAlone`, `SignOutAlone`: while a sign-in or a sign-out is under way nothing else changes who is signed in |
| `LoadingIsForSomething` | `[]LoadingIsAwaited` | `Awaited`, with operations of the same kind as `ReadyBelongs` |

The argument. An answer counts if its operation's scope is the one of the epochs now,
and `OpsShaped` says that no scope is ahead of them: after an epoch was raised, all that
was under way before is given up (`ClearForgets`), and what is sent from then on
counts. So answers do one of a few things (nothing: `GivesUp`; clear the page:
`Clears`; report a failure: `Fails`; establish a session: `Establishes`; turn the page
within the session: `StaysSignedOn`), and each is shown once to preserve the whole
invariant, whichever of the ten answers does it. The last four parts are about what is
on the screen but not yet on the page, or the reverse: a sign-in form waits
(`FormIsShown`), a voluntary change of password was asked for on this screen
(`GateWasAsked`), the form that forces one cannot be left (`ForcedIsShut`), and a
session whose password must be changed has that form (`MustIsForced`). Without them
"ready" would not tell what the reviewer sees: they are why a click on a stale screen
does not open a page that nothing was loaded for. `IInv` was checked by TLC on the
run's instance before it was proved, and, but for what other tabs may do beside
signing in, on random behaviours of nine operations and four sessions.

A proof that a step preserves an invariant has one step for each action of
`Next`. The precedence of standings is a function on a finite set, and the
closure of the evidence an intersection of closed sets, so no recursion is
needed. `Ordered` and `Indexed` were checked by TLC on two requests of every kind
before they were proved, `Standing` on three.

Model-checked only: liveness (`EveryRequestEnds`, `EveryUploadEnds`, `EveryExtractionEnds`),
which is out of this prover's reach, as are `ENABLED` and induction over data. `TypeOK` of CaseIntegrity is stated for its reader; no run checks it beside the
properties that depend on it.

## 8. What is not modelled

PDF rendering, HTTP parsing, schemas and configuration, triggers and the
row-level security of evidence (they repeat checks the services make),
presentation, and shell scripts: pure input and output, or state no property here
depends on. The operator's commands other than the restore run once, alone, and
make the states the models begin with. The browser's local mode is a copy of the
domain rules for one reviewer and no server: nothing runs beside it. A client that
disconnects is a request that ends. PostgreSQL, the argon2, TOTP, PDF and OCR
libraries are external and appear as locks, outcomes and values. A checkpoint's
signature is taken to be sound, and its key to be configured. The operations of
administration that only read are left out.

## 9. Plan

Done, in the order of importance: the rules and the evidence of a matter; its
operations; their proofs; their transactions; authority over matters; sign-in and
its promise; uploads, their promise and extraction; integrity; the browser's
store; the proofs of the two promises; the proofs that uploads and the
transactions of a matter keep theirs; the proofs of authority over matters; the
proofs that sign-in keeps its promise, and of where its deadlocks, those of
administration and those of evidence come from; the proofs of integrity,
of the browser's store and of extraction.

Every safety property of a passing run is now a theorem; what is left to proofs is
liveness, which waits for a prover that has it.
