------------------------- MODULE EvidenceCaseProofs -------------------------
(***************************************************************************)
(* Proofs about EvidenceCase: the types; then the safety properties, each  *)
(* an invariant of its own on top of Typed and, where a later one needs an *)
(* earlier one, of those; last what the outside world is shown: approvals  *)
(* stand only on the evidence they were given on, and a production packet  *)
(* is candid about every section it includes.                              *)
(***************************************************************************)
EXTENDS EvidenceCase, FiniteSetTheorems, TLAPS

-----------------------------------------------------------------------------
(***************************************************************************)
(* The doctrine.                                                           *)
(***************************************************************************)

\* Among the standings of a claim there is always a most decisive one, and it
\* is what aggregate_claim_status returns.
LEMMA AggregateIsLeast ==
  ASSUME NEW S \in SUBSET ClaimStatuses, S # {}
  PROVE  /\ AggregateStatus(S) \in S
         /\ \A e \in S : Precedence[AggregateStatus(S)] <= Precedence[e]
<1>1. \E d \in S : \A e \in S : Precedence[d] <= Precedence[e]
  <2>1. CASE "rejected" \in S
    BY <2>1 DEF ClaimStatuses, Precedence
  <2>2. CASE "rejected" \notin S /\ "superseded" \in S
    BY <2>2 DEF ClaimStatuses, Precedence
  <2>3. CASE S \cap {"rejected", "superseded"} = {} /\ "disputed" \in S
    BY <2>3 DEF ClaimStatuses, Precedence
  <2>4. CASE S \cap {"rejected", "superseded", "disputed"} = {} /\ "escalated" \in S
    BY <2>4 DEF ClaimStatuses, Precedence
  <2>5. CASE S \subseteq {"preserved", "supported", "unreviewed"} /\ "preserved" \in S
    BY <2>5 DEF ClaimStatuses, Precedence
  <2>6. CASE S \subseteq {"supported", "unreviewed"} /\ "supported" \in S
    BY <2>6 DEF ClaimStatuses, Precedence
  <2>7. CASE S = {"unreviewed"}
    BY <2>7 DEF Precedence
  <2> QED
    <3>1. S \subseteq {"unreviewed"} => S = {"unreviewed"}
      OBVIOUS
    <3> QED
      BY <3>1, <2>1, <2>2, <2>3, <2>4, <2>5, <2>6, <2>7 DEF ClaimStatuses
<1> QED
  BY <1>1 DEF AggregateStatus

LEMMA EligibilityTyped ==
  ASSUME NEW status, NEW privilege, NEW conflicts, NEW quote
  PROVE  ClaimEligibility(status, privilege, conflicts, quote) \in Eligibilities
BY DEF ClaimEligibility, Eligibilities

LEMMA TransitionTyped ==
  ASSUME NEW d \in DecisionTypes, NEW x
  PROVE  /\ TransitionFor(d, x).conflict \in ConflictStatuses
         /\ TransitionFor(d, x).a \in ClaimStatuses
         /\ TransitionFor(d, x).b \in ClaimStatuses
BY DEF TransitionFor, DecisionTypes, ConflictStatuses, ClaimStatuses

\* Deriving a claim anew makes its row right, whatever it was, and touches
\* nothing but status and eligibility.
LEMMA RecomputeDerives ==
  ASSUME NEW row \in ClaimRow, NEW cf, NEW c,
         \A k \in DOMAIN cf : cf[k] \in ConflictRow
  PROVE  LET new == Recompute(row, cf, c)
         IN  /\ new \in ClaimRow
             /\ StandingDerived(new, cf, c)
             /\ new.privilege = row.privilege
             /\ new.quoteVerification = row.quoteVerification
             /\ new.author = row.author
             /\ new.attestedBy = row.attestedBy
<1> DEFINE standings == {Disposition(cf[k], c) : k \in RelatedConflicts(cf, c)}
           status    == AggregateStatus(standings)
           judged    == [row EXCEPT !.status = status]
           new       == Recompute(row, cf, c)
<1>1. standings \in SUBSET ClaimStatuses
  BY DEF Disposition, RelatedConflicts, ConflictRow
<1>2. standings = {} => status = "unreviewed"
  BY DEF AggregateStatus
<1>3. standings # {} =>
        /\ status \in standings
        /\ \A d \in standings : Precedence[status] <= Precedence[d]
  <2> HIDE DEF standings
  <2> QED
    BY <1>1, AggregateIsLeast
<1>4. status \in ClaimStatuses
  <2> HIDE DEF standings, status
  <2> QED
    BY <1>1, <1>2, <1>3 DEF ClaimStatuses
<1>5. new = [row EXCEPT !.status = status, !.reportEligibility = EligibilityOf(judged, cf, c)]
  BY DEF Recompute
<1>6. EligibilityOf(judged, cf, c) \in Eligibilities
  BY EligibilityTyped DEF EligibilityOf
<1> HIDE DEF standings, status
<1>7. /\ new \in ClaimRow
      /\ new.status = status
      /\ new.reportEligibility = EligibilityOf(judged, cf, c)
      /\ new.privilege = row.privilege
      /\ new.quoteVerification = row.quoteVerification
      /\ new.author = row.author
      /\ new.attestedBy = row.attestedBy
  <2> HIDE DEF new
  <2> QED
    BY <1>4, <1>5, <1>6 DEF ClaimRow
<1>8. EligibilityOf(new, cf, c) = EligibilityOf(judged, cf, c)
  <2>1. /\ judged.status = status
        /\ judged.privilege = row.privilege
        /\ judged.quoteVerification = row.quoteVerification
    BY <1>4 DEF ClaimRow
  <2> QED
    BY <2>1, <1>7 DEF EligibilityOf
<1>9. StandingDerived(new, cf, c)
  <2> USE DEF standings
  <2> QED
    BY <1>2, <1>3, <1>7, <1>8 DEF StandingDerived
<1> QED
  BY <1>7, <1>9

\* A claim whose conflicts did not change keeps the standing it has.
LEMMA StandingFrame ==
  ASSUME NEW row, NEW cf, NEW cf2, NEW c,
         RelatedConflicts(cf2, c) = RelatedConflicts(cf, c),
         \A k \in RelatedConflicts(cf, c) : cf2[k] = cf[k],
         StandingDerived(row, cf, c)
  PROVE  StandingDerived(row, cf2, c)
<1>1. {Disposition(cf2[k], c) : k \in RelatedConflicts(cf2, c)}
        = {Disposition(cf[k], c) : k \in RelatedConflicts(cf, c)}
  OBVIOUS
<1>2. {cf2[k].status : k \in RelatedConflicts(cf2, c)}
        = {cf[k].status : k \in RelatedConflicts(cf, c)}
  OBVIOUS
<1>3. EligibilityOf(row, cf2, c) = EligibilityOf(row, cf, c)
  BY <1>2 DEF EligibilityOf
<1> QED
  BY <1>1, <1>3 DEF StandingDerived

\* After the conflicts of some claims changed, deriving those claims anew is
\* enough to make every standing right.
LEMMA RecomputeRestoresStandings ==
  ASSUME NEW cl, NEW cf, NEW cf2, NEW S,
         \A c \in DOMAIN cl : cl[c] \in ClaimRow,
         \A k \in DOMAIN cf2 : cf2[k] \in ConflictRow,
         StandingsDerived(cl, cf),
         \A c \in DOMAIN cl \ S :
           /\ RelatedConflicts(cf2, c) = RelatedConflicts(cf, c)
           /\ \A k \in RelatedConflicts(cf, c) : cf2[k] = cf[k]
  PROVE  StandingsDerived(RecomputeClaims(cl, cf2, S), cf2)
<1> DEFINE cl2 == RecomputeClaims(cl, cf2, S)
<1> SUFFICES ASSUME NEW c \in DOMAIN cl
             PROVE  StandingDerived(cl2[c], cf2, c)
  BY DEF StandingsDerived, RecomputeClaims
<1>1. CASE c \in S
  <2>1. cl2[c] = Recompute(cl[c], cf2, c)
    BY <1>1 DEF RecomputeClaims
  <2> QED
    BY <2>1, RecomputeDerives
<1>2. CASE c \notin S
  <2>1. cl2[c] = cl[c]
    BY <1>2 DEF RecomputeClaims
  <2>2. StandingDerived(cl[c], cf, c)
    BY DEF StandingsDerived
  <2> QED
    BY <1>2, <2>1, <2>2, StandingFrame
<1> QED
  BY <1>1, <1>2

\* The claims after some were derived anew are the same claims, with rows of the
\* same type and the same attestations.
LEMMA RecomputeClaimsTyped ==
  ASSUME NEW cl, NEW cf, NEW S,
         \A c \in DOMAIN cl : cl[c] \in ClaimRow,
         \A k \in DOMAIN cf : cf[k] \in ConflictRow
  PROVE  LET cl2 == RecomputeClaims(cl, cf, S)
         IN  /\ DOMAIN cl2 = DOMAIN cl
             /\ \A c \in DOMAIN cl :
                  /\ cl2[c] \in ClaimRow
                  /\ cl2[c].quoteVerification = cl[c].quoteVerification
                  /\ cl2[c].author = cl[c].author
                  /\ cl2[c].attestedBy = cl[c].attestedBy
<1> DEFINE cl2 == RecomputeClaims(cl, cf, S)
<1>1. DOMAIN cl2 = DOMAIN cl
  BY DEF RecomputeClaims
<1>2. ASSUME NEW c \in DOMAIN cl
      PROVE  /\ cl2[c] \in ClaimRow
             /\ cl2[c].quoteVerification = cl[c].quoteVerification
             /\ cl2[c].author = cl[c].author
             /\ cl2[c].attestedBy = cl[c].attestedBy
  <2>1. cl2[c] = IF c \in S THEN Recompute(cl[c], cf, c) ELSE cl[c]
    BY DEF RecomputeClaims
  <2> QED
    BY <2>1, RecomputeDerives
<1> QED
  BY <1>1, <1>2

-----------------------------------------------------------------------------
(***************************************************************************)
(* Typing.                                                                 *)
(***************************************************************************)

\* The position given to a new section is after every other.
LEMMA NextPositionIsLast ==
  ASSUME NEW sec, HasLastSection(sec),
         \A s \in DOMAIN sec : sec[s].position \in Nat
  PROVE  /\ NextPosition(sec) \in Nat
         /\ \A s \in DOMAIN sec : sec[s].position < NextPosition(sec)
<1> DEFINE P == {-1} \cup {sec[s].position : s \in DOMAIN sec}
<1>1. \E x \in P : \A y \in P : x >= y
  <2>1. CASE DOMAIN sec = {}
    BY <2>1
  <2>2. CASE DOMAIN sec # {}
    <3>1. PICK s \in DOMAIN sec : \A t \in DOMAIN sec : sec[t].position <= sec[s].position
      BY <2>2 DEF HasLastSection
    <3> WITNESS sec[s].position \in P
    <3> QED
      BY <3>1
  <2> QED
    BY <2>1, <2>2
<1>2. Max(P) \in P /\ \A y \in P : Max(P) >= y
  <2> HIDE DEF P
  <2> QED
    BY <1>1 DEF Max
<1>3. NextPosition(sec) = 1 + Max(P)
  BY DEF NextPosition
<1>4. Max(P) \in Int /\ Max(P) >= -1
  BY <1>2
<1> QED
  BY <1>2, <1>3, <1>4

\* A digest speaks of the matter's own claims and conflicts.
LEMMA EvidenceStateTyped ==
  ASSUME NEW cl, NEW cf, NEW cited \in SUBSET Claims,
         DOMAIN cl \subseteq Claims, DOMAIN cf \subseteq Conflicts
  PROVE  IsEvidenceState(EvidenceState(cl, cf, cited))
BY DEF IsEvidenceState, EvidenceState, EvidenceClaims, RelatedConflicts

LEMMA NoEvidenceTyped == IsEvidenceState(NoEvidence)
BY DEF IsEvidenceState, NoEvidence

\* The rows a decision or a flag leaves in the conflict table.
LEMMA DecidedTyped ==
  ASSUME NEW row \in ConflictRow, NEW d \in DecisionTypes, NEW x
  PROVE  LET new == Decided(row, d, x)
         IN  /\ new \in ConflictRow
             /\ new.claimA = row.claimA
             /\ new.claimB = row.claimB
             /\ new.severity = row.severity
             /\ new.version = row.version + 1
<1> DEFINE t == TransitionFor(d, x)
<1>1. t.conflict \in ConflictStatuses /\ t.a \in ClaimStatuses /\ t.b \in ClaimStatuses
  BY TransitionTyped
<1> HIDE DEF t
<1> DEFINE new == Decided(row, d, x)
<1>2. new = [row EXCEPT !.status = t.conflict, !.claimADisposition = t.a,
                        !.claimBDisposition = t.b, !.version = row.version + 1]
  BY DEF Decided, t
<1> DEFINE conf == t.conflict
           a    == t.a
           b    == t.b
           v    == row.version + 1
<1>3. conf \in ConflictStatuses /\ a \in ClaimStatuses /\ b \in ClaimStatuses /\ v \in Nat
  BY <1>1 DEF ConflictRow
<1>4. new = [row EXCEPT !.status = conf, !.claimADisposition = a,
                        !.claimBDisposition = b, !.version = v]
  BY <1>2
<1> HIDE DEF conf, a, b, v, new
<1>5. /\ new \in ConflictRow
      /\ new.claimA = row.claimA
      /\ new.claimB = row.claimB
      /\ new.severity = row.severity
      /\ new.version = v
  BY <1>3, <1>4 DEF ConflictRow
<1> QED
  BY <1>5 DEF new, v

LEMMA FlaggedTyped ==
  ASSUME NEW a \in Claims, NEW b \in Claims, NEW v \in Severities
  PROVE  FlaggedConflict(a, b, v) \in ConflictRow
BY DEF FlaggedConflict, ConflictRow, ConflictStatuses, ClaimStatuses

\* Withdrawing approvals leaves the sections as they are but for the approval.
LEMMA ResetTyped ==
  ASSUME NEW cl, NEW cf, NEW sec, NEW S, RowsTyped(cl, cf, sec), HasLastSection(sec)
  PROVE  /\ RowsTyped(cl, cf, ResetApprovals(sec, S))
         /\ HasLastSection(ResetApprovals(sec, S))
<1> DEFINE new == ResetApprovals(sec, S)
<1>1. DOMAIN new = DOMAIN sec
  BY DEF ResetApprovals
<1>2. ASSUME NEW s \in DOMAIN sec
      PROVE  /\ new[s] \in SectionRow(new[s].revision.evidence)
             /\ new[s].claimIds = sec[s].claimIds
             /\ new[s].position = sec[s].position
             /\ new[s].revision = sec[s].revision
  <2>1. new[s] = IF s \in S THEN [sec[s] EXCEPT !.approvalCurrent = FALSE] ELSE sec[s]
    BY DEF ResetApprovals
  <2>2. sec[s] \in SectionRow(sec[s].revision.evidence)
    BY DEF RowsTyped
  <2> HIDE DEF new
  <2> QED
    BY <2>1, <2>2 DEF SectionRow
<1> HIDE DEF new
<1>3. RowsTyped(cl, cf, new)
  BY <1>1, <1>2 DEF RowsTyped
<1>4. HasLastSection(new)
  BY <1>1, <1>2 DEF HasLastSection
<1> QED
  BY <1>3, <1>4 DEF new

\* The rows of claims may be replaced by others, and claims may be added.
LEMMA MoreClaimsTyped ==
  ASSUME NEW cl, NEW cf, NEW sec, NEW cl2, RowsTyped(cl, cf, sec),
         DOMAIN cl \subseteq DOMAIN cl2, DOMAIN cl2 \subseteq Claims,
         \A c \in DOMAIN cl2 : cl2[c] \in ClaimRow
  PROVE  RowsTyped(cl2, cf, sec)
BY DEF RowsTyped

LEMMA ExtractedTyped ==
  ASSUME NEW r \in Reviewers, NEW p \in PrivilegeStatuses, NEW q \in QuoteOutcomes
  PROVE  ExtractedClaim(r, p, q) \in ClaimRow
<1>1. ClaimEligibility("unreviewed", p, {}, q) \in Eligibilities
  BY EligibilityTyped
<1> QED
  BY <1>1 DEF ExtractedClaim, ClaimRow, ClaimStatuses, QuoteOutcomes, QuoteVerifications

LEMMA AttestedTyped ==
  ASSUME NEW row \in ClaimRow, NEW r \in Reviewers, NEW cf, NEW c
  PROVE  LET new == Attested(row, r, cf, c)
         IN  /\ new \in ClaimRow
             /\ new.status = row.status
             /\ new.author = row.author
             /\ new.attestedBy = r
             /\ new.quoteVerification = "manually_verified"
             /\ new.reportEligibility = EligibilityOf(new, cf, c)
<1> DEFINE verified == [row EXCEPT !.quoteVerification = "manually_verified", !.attestedBy = r]
           e        == EligibilityOf(verified, cf, c)
           new      == Attested(row, r, cf, c)
<1>1. e \in Eligibilities
  BY EligibilityTyped DEF EligibilityOf
<1>2. /\ verified \in ClaimRow
      /\ verified.status = row.status
      /\ verified.privilege = row.privilege
      /\ verified.author = row.author
      /\ verified.attestedBy = r
      /\ verified.quoteVerification = "manually_verified"
  BY DEF ClaimRow, QuoteVerifications
<1>3. new = [verified EXCEPT !.reportEligibility = e]
  BY DEF Attested
<1> HIDE DEF verified, e
<1>4. /\ new \in ClaimRow
      /\ new.status = row.status
      /\ new.privilege = row.privilege
      /\ new.author = row.author
      /\ new.attestedBy = r
      /\ new.quoteVerification = "manually_verified"
      /\ new.reportEligibility = e
  <2> HIDE DEF new
  <2> QED
    BY <1>1, <1>2, <1>3 DEF ClaimRow
<1>5. e = EligibilityOf(new, cf, c)
  BY <1>2, <1>4 DEF e, EligibilityOf
<1> QED
  BY <1>4, <1>5

Typed == TypeOK /\ HasLastSection(section)

\* A longer audit chain and more sections leave the packets as good as they were.
LEMMA PacketsKept ==
  ASSUME PacketsTyped, UNCHANGED packets, events \in Nat, events' \in Nat,
         events <= events', DOMAIN section \subseteq DOMAIN section'
  PROVE  PacketsTyped'
BY DEF PacketsTyped, IsPacket

\* What the five operations that change the evidence have in common.
LEMMA EvidenceStepTyped ==
  ASSUME Typed, NEW n \in Nat, sources' \subseteq Sources,
         RowsTyped(claim', conflict', section),
         WithdrawApprovals, Audit(n), UNCHANGED packets
  PROVE  Typed'
<1>1. RowsTyped(claim', conflict', section') /\ HasLastSection(section')
  BY ResetTyped DEF Typed, WithdrawApprovals
<1>2. DOMAIN section' = DOMAIN section
  BY DEF WithdrawApprovals, ResetApprovals
<1>3. events' \in 0 .. MaxEvents /\ events <= events'
  BY ConstantsAssumption DEF Typed, TypeOK, Audit
<1>4. PacketsTyped'
  BY <1>2, <1>3, PacketsKept DEF Typed, TypeOK
<1> QED
  BY <1>1, <1>3, <1>4 DEF Typed, TypeOK

LEMMA TypedInit == Init => Typed
<1> SUFFICES ASSUME Init PROVE Typed
  OBVIOUS
<1>1. RowsTyped(claim, conflict, section) /\ HasLastSection(section) /\ sources \subseteq Sources
  BY OpeningAssumption DEF Init
<1>2. events \in 0 .. MaxEvents
  BY ConstantsAssumption DEF Init
<1>3. PacketsTyped
  BY DEF Init, PacketsTyped
<1> QED
  BY <1>1, <1>2, <1>3 DEF Typed, TypeOK

LEMMA IngestSourceTyped ==
  ASSUME Typed, NEW r \in Reviewers, NEW d \in Sources, IngestSource(r, d)
  PROVE  Typed'
<1>1. sources' \subseteq Sources
  BY DEF Typed, TypeOK, IngestSource
<1>2. RowsTyped(claim', conflict', section)
  BY DEF Typed, TypeOK, IngestSource
<1> QED
  BY <1>1, <1>2, EvidenceStepTyped DEF IngestSource

LEMMA CreateClaimTyped ==
  ASSUME Typed, NEW r \in Reviewers, NEW c \in Claims, NEW d \in Sources,
         NEW q \in QuoteChoices, CreateClaim(r, c, d, q)
  PROVE  Typed'
<1> DEFINE row == ExtractedClaim(r, Privilege[d], q)
<1>1. row \in ClaimRow
  BY ConstantsAssumption, ExtractedTyped
<1>2. RowsTyped(claim, conflict, section)
  BY DEF Typed, TypeOK
<1>3. /\ claim' = Put(claim, c, row)
      /\ UNCHANGED <<sources, conflict, packets>>
      /\ WithdrawApprovals
      /\ Audit(1)
  BY DEF CreateClaim
<1> HIDE DEF row
<1>4. /\ DOMAIN claim' = DOMAIN claim \cup {c}
      /\ \A x \in DOMAIN claim' : claim'[x] = IF x = c THEN row ELSE claim[x]
  BY <1>3 DEF Put
<1>5. \A x \in DOMAIN claim' : claim'[x] \in ClaimRow
  BY <1>1, <1>2, <1>4 DEF RowsTyped
<1>6. DOMAIN claim' \subseteq Claims
  BY <1>2, <1>4 DEF RowsTyped
<1>7. RowsTyped(claim', conflict, section)
  BY <1>2, <1>4, <1>5, <1>6, MoreClaimsTyped
<1>8. RowsTyped(claim', conflict', section) /\ sources' \subseteq Sources
  BY <1>3, <1>7 DEF Typed, TypeOK
<1> QED
  BY <1>3, <1>8, EvidenceStepTyped

LEMMA VerifyQuoteTyped ==
  ASSUME Typed, NEW r \in Reviewers, NEW c \in Claims, VerifyQuote(r, c)
  PROVE  Typed'
<1> DEFINE row == Attested(claim[c], r, conflict, c)
<1>1. RowsTyped(claim, conflict, section)
  BY DEF Typed, TypeOK
<1>2. /\ c \in DOMAIN claim
      /\ claim' = [claim EXCEPT ![c] = row]
      /\ UNCHANGED <<sources, conflict, packets>>
      /\ WithdrawApprovals
      /\ Audit(1)
  BY DEF VerifyQuote
<1>3. row \in ClaimRow
  BY <1>1, <1>2, AttestedTyped DEF RowsTyped
<1> HIDE DEF row
<1>4. /\ DOMAIN claim' = DOMAIN claim
      /\ \A x \in DOMAIN claim' : claim'[x] \in ClaimRow
  BY <1>1, <1>2, <1>3 DEF RowsTyped
<1>5. RowsTyped(claim', conflict, section)
  BY <1>1, <1>4, MoreClaimsTyped DEF RowsTyped
<1>6. RowsTyped(claim', conflict', section) /\ sources' \subseteq Sources
  BY <1>2, <1>5 DEF Typed, TypeOK
<1> QED
  BY <1>2, <1>6, EvidenceStepTyped

\* The conflicts after one of them was flagged or decided, and the claims after
\* some of them were derived anew.
LEMMA ReviewTyped ==
  ASSUME NEW S, RowsTyped(claim, conflict, section), NEW k \in Conflicts, NEW row \in ConflictRow,
         row.claimA # row.claimB, ClaimsOf(row) \subseteq DOMAIN claim,
         conflict' = Put(conflict, k, row),
         claim' = RecomputeClaims(claim, conflict', S)
  PROVE  /\ \A j \in DOMAIN conflict' : conflict'[j] \in ConflictRow
         /\ RowsTyped(claim', conflict', section)
<1>1. /\ DOMAIN conflict' = DOMAIN conflict \cup {k}
      /\ \A j \in DOMAIN conflict' : conflict'[j] = IF j = k THEN row ELSE conflict[j]
  BY DEF Put
<1>2. \A j \in DOMAIN conflict' :
        /\ conflict'[j] \in ConflictRow
        /\ conflict'[j].claimA # conflict'[j].claimB
        /\ ClaimsOf(conflict'[j]) \subseteq DOMAIN claim
  BY <1>1 DEF RowsTyped
<1>3. RowsTyped(claim, conflict', section)
  BY <1>1, <1>2 DEF RowsTyped
<1>4. /\ DOMAIN claim' = DOMAIN claim
      /\ \A c \in DOMAIN claim' : claim'[c] \in ClaimRow
  BY <1>2, RecomputeClaimsTyped DEF RowsTyped
<1>5. RowsTyped(claim', conflict', section)
  BY <1>3, <1>4, MoreClaimsTyped DEF RowsTyped
<1> QED
  BY <1>2, <1>5

LEMMA FlagConflictTyped ==
  ASSUME Typed, NEW r \in Reviewers, NEW k \in Conflicts, NEW a \in Claims, NEW b \in Claims,
         NEW v \in SeverityChoices, FlagConflict(r, k, a, b, v)
  PROVE  Typed'
<1> DEFINE row == FlaggedConflict(a, b, v)
<1>1. /\ row \in ConflictRow
      /\ row.claimA = a
      /\ row.claimB = b
  BY ConstantsAssumption, FlaggedTyped DEF FlaggedConflict
<1>2. /\ a # b
      /\ {a, b} \subseteq DOMAIN claim
      /\ conflict' = Put(conflict, k, row)
      /\ claim' = RecomputeClaims(claim, conflict', {a, b})
      /\ WithdrawApprovals
      /\ Audit(3)
      /\ UNCHANGED <<sources, packets>>
  BY DEF FlagConflict
<1> HIDE DEF row
<1>3. row.claimA # row.claimB /\ ClaimsOf(row) \subseteq DOMAIN claim
  BY <1>1, <1>2 DEF ClaimsOf
<1>4. RowsTyped(claim, conflict, section)
  BY DEF Typed, TypeOK
<1>5. RowsTyped(claim', conflict', section)
  BY <1>1, <1>2, <1>3, <1>4, ReviewTyped
<1>6. sources' \subseteq Sources
  BY <1>2 DEF Typed, TypeOK
<1> QED
  BY <1>2, <1>5, <1>6, EvidenceStepTyped

LEMMA PairFinite ==
  ASSUME NEW a, NEW b, NEW T \in SUBSET {a, b}
  PROVE  Cardinality(T) \in Nat
<1>1. IsFiniteSet({a})
  BY FS_Singleton
<1>2. IsFiniteSet({a} \cup {b})
  BY <1>1, FS_AddElement
<1>3. IsFiniteSet({a, b})
  <2>1. {a, b} = {a} \cup {b}
    OBVIOUS
  <2> QED
    BY <1>2, <2>1
<1>4. IsFiniteSet(T)
  BY <1>3, FS_Subset
<1> QED
  BY <1>4, FS_CardinalityType

\* What a decision does to the rows, in the form of a flag.
LEMMA DecideRows ==
  ASSUME Typed, NEW r \in Reviewers, NEW k \in Conflicts, NEW t \in DecisionTypes, NEW x,
         Decide(r, k, t, x)
  PROVE  LET row == Decided(conflict[k], t, x)
         IN  /\ k \in DOMAIN conflict
             /\ conflict[k] \in ConflictRow
             /\ row \in ConflictRow
             /\ row.claimA = conflict[k].claimA
             /\ row.claimB = conflict[k].claimB
             /\ row.claimA # row.claimB
             /\ ClaimsOf(row) \subseteq DOMAIN claim
             /\ conflict' = Put(conflict, k, row)
             /\ claim' = RecomputeClaims(claim, conflict', ClaimsOf(row))
<1> DEFINE row == Decided(conflict[k], t, x)
<1>1. /\ k \in DOMAIN conflict
      /\ conflict' = [conflict EXCEPT ![k] = row]
      /\ claim' = DecidedClaims(claim, conflict', k)
  BY DEF Decide
<1>2. /\ conflict[k] \in ConflictRow
      /\ conflict[k].claimA # conflict[k].claimB
      /\ ClaimsOf(conflict[k]) \subseteq DOMAIN claim
  BY <1>1 DEF Typed, TypeOK, RowsTyped
<1>3. /\ row \in ConflictRow
      /\ row.claimA = conflict[k].claimA
      /\ row.claimB = conflict[k].claimB
  BY <1>2, DecidedTyped
<1> HIDE DEF row
<1>4. conflict' = Put(conflict, k, row)
  BY <1>1 DEF Put
<1>5. conflict'[k] = row
  BY <1>1
<1> QED
  BY <1>1, <1>2, <1>3, <1>4, <1>5 DEF ClaimsOf, DecidedClaims, row

LEMMA DecideTyped ==
  ASSUME Typed, NEW r \in Reviewers, NEW k \in Conflicts, NEW t \in DecisionTypes, NEW x,
         Decide(r, k, t, x)
  PROVE  Typed'
<1> DEFINE row == Decided(conflict[k], t, x)
           n   == 1 + Cardinality({c \in {row.claimA, row.claimB} :
                                     StandingChanged(claim[c], claim'[c])})
<1>1. n \in Nat
  <2> DEFINE T == {c \in {row.claimA, row.claimB} : StandingChanged(claim[c], claim'[c])}
  <2>1. T \in SUBSET {row.claimA, row.claimB}
    OBVIOUS
  <2> HIDE DEF T
  <2>2. Cardinality(T) \in Nat
    BY <2>1, PairFinite
  <2> QED
    BY <2>2 DEF T
<1>2. WithdrawApprovals /\ Audit(n) /\ UNCHANGED <<sources, packets>>
  BY DEF Decide
<1> HIDE DEF n
<1>3. RowsTyped(claim, conflict, section)
  BY DEF Typed, TypeOK
<1>4. /\ row \in ConflictRow
      /\ row.claimA # row.claimB
      /\ ClaimsOf(row) \subseteq DOMAIN claim
      /\ conflict' = Put(conflict, k, row)
      /\ claim' = RecomputeClaims(claim, conflict', ClaimsOf(row))
  BY DecideRows
<1> HIDE DEF row
<1>5. RowsTyped(claim', conflict', section)
  BY <1>3, <1>4, ReviewTyped
<1>6. sources' \subseteq Sources
  BY <1>2 DEF Typed, TypeOK
<1> QED
  BY <1>1, <1>2, <1>5, <1>6, EvidenceStepTyped

\* The sections after one of them was drafted, revised or approved.
LEMMA SectionStepTyped ==
  ASSUME Typed, NEW s \in Sections, NEW row,
         row \in SectionRow(row.revision.evidence),
         row.claimIds \in (SUBSET DOMAIN claim) \ {{}},
         IsEvidenceState(row.revision.evidence),
         DOMAIN section' = DOMAIN section \cup {s},
         \A x \in DOMAIN section' : section'[x] = IF x = s THEN row ELSE section[x],
         \/ s \in DOMAIN section /\ row.position = section[s].position
         \/ \A x \in DOMAIN section : section[x].position < row.position,
         Audit(1), UNCHANGED <<sources, claim, conflict, packets>>
  PROVE  Typed'
<1>1. RowsTyped(claim, conflict, section) /\ HasLastSection(section)
  BY DEF Typed, TypeOK
<1>2. RowsTyped(claim', conflict', section')
  BY <1>1 DEF RowsTyped
<1>3. HasLastSection(section')
  <2> DEFINE Last(sec, l) == l \in DOMAIN sec /\ \A x \in DOMAIN sec : sec[x].position <= sec[l].position
  <2>1. /\ row.position \in Nat
        /\ \A x \in DOMAIN section : section[x].position \in Nat
    BY <1>1 DEF RowsTyped, SectionRow
  <2>2. CASE \A x \in DOMAIN section : section[x].position < row.position
    <3>1. Last(section', s)
      BY <2>1, <2>2
    <3> QED
      BY <3>1 DEF HasLastSection
  <2>3. CASE s \in DOMAIN section /\ row.position = section[s].position
    <3>1. PICK l \in DOMAIN section : Last(section, l)
      BY <1>1, <2>3 DEF HasLastSection
    <3>2. Last(section', l)
      BY <2>1, <2>3, <3>1
    <3> QED
      BY <3>2 DEF HasLastSection
  <2> QED
    BY <2>2, <2>3
<1>4. events' \in 0 .. MaxEvents /\ events \in Nat /\ events <= events'
  BY ConstantsAssumption DEF Typed, TypeOK, Audit
<1>5. PacketsTyped'
  BY <1>4, PacketsKept DEF Typed, TypeOK
<1>6. sources' \subseteq Sources
  BY DEF Typed, TypeOK
<1> QED
  BY <1>2, <1>3, <1>4, <1>5, <1>6 DEF Typed, TypeOK

LEMMA DraftSectionTyped ==
  ASSUME Typed, NEW r \in Reviewers, NEW s \in Sections, NEW p \in ParagraphRefs,
         NEW cited \in SUBSET Claims, DraftSection(r, s, p, cited)
  PROVE  Typed'
<1> DEFINE position == NextPosition(section)
           row      == DraftedSection(p, position, cited)
<1>1. /\ position \in Nat
      /\ \A x \in DOMAIN section : section[x].position < position
  BY NextPositionIsLast DEF Typed, TypeOK, RowsTyped, SectionRow
<1>2. /\ section' = Put(section, s, row)
      /\ Citable(r, cited)
      /\ Audit(1)
      /\ UNCHANGED <<sources, claim, conflict, packets>>
  BY DEF DraftSection
<1> HIDE DEF position
<1>3. /\ row \in SectionRow(row.revision.evidence)
      /\ row.claimIds = cited
      /\ row.position = position
      /\ IsEvidenceState(row.revision.evidence)
  BY <1>1, NoEvidenceTyped DEF DraftedSection, DraftRevision, SectionRow
<1>4. cited \in (SUBSET DOMAIN claim) \ {{}}
  BY <1>2 DEF Citable
<1> HIDE DEF row
<1>5. /\ DOMAIN section' = DOMAIN section \cup {s}
      /\ \A x \in DOMAIN section' : section'[x] = IF x = s THEN row ELSE section[x]
  BY <1>2 DEF Put
<1> QED
  BY <1>1, <1>2, <1>3, <1>4, <1>5, SectionStepTyped

LEMMA ReviseSectionTyped ==
  ASSUME Typed, NEW r \in Reviewers, NEW s \in Sections, NEW p \in ParagraphRefs,
         NEW cited \in SUBSET Claims, ReviseSection(r, s, p, cited)
  PROVE  Typed'
<1> DEFINE row == Revised(section[s], p, cited)
<1>1. /\ s \in DOMAIN section
      /\ section' = [section EXCEPT ![s] = row]
      /\ Citable(r, cited)
      /\ Audit(1)
      /\ UNCHANGED <<sources, claim, conflict, packets>>
  BY DEF ReviseSection
<1>2. section[s] \in SectionRow(section[s].revision.evidence)
  BY <1>1 DEF Typed, TypeOK, RowsTyped
<1>3. /\ row \in SectionRow(row.revision.evidence)
      /\ row.claimIds = cited
      /\ row.position = section[s].position
      /\ IsEvidenceState(row.revision.evidence)
  <2> DEFINE rev == DraftRevision(cited)
             v   == section[s].version + 1
  <2>1. v \in Nat
    BY <1>2 DEF SectionRow
  <2>2. /\ rev \in [claimIds : SUBSET Claims, approvalState : {"draft", "approved"},
                    evidence : {rev.evidence}]
        /\ rev.evidence = NoEvidence
    BY DEF DraftRevision
  <2>3. row = [section[s] EXCEPT !.paragraphRef = p, !.claimIds = cited, !.version = v,
                                 !.approvalCurrent = FALSE, !.revision = rev]
    BY DEF Revised
  <2> HIDE DEF rev, v, row
  <2>4. /\ row.revision = rev
        /\ row.claimIds = cited
        /\ row.position = section[s].position
        /\ row \in SectionRow(rev.evidence)
    BY <1>2, <2>1, <2>2, <2>3 DEF SectionRow
  <2> QED
    BY <2>2, <2>4, NoEvidenceTyped
<1>4. cited \in (SUBSET DOMAIN claim) \ {{}}
  BY <1>1 DEF Citable
<1> HIDE DEF row
<1>5. /\ DOMAIN section' = DOMAIN section \cup {s}
      /\ \A x \in DOMAIN section' : section'[x] = IF x = s THEN row ELSE section[x]
  BY <1>1
<1> QED
  BY <1>1, <1>3, <1>4, <1>5, SectionStepTyped

LEMMA ApproveSectionTyped ==
  ASSUME Typed, NEW r \in Reviewers, NEW s \in Sections, ApproveSection(r, s)
  PROVE  Typed'
<1> DEFINE row == ApprovedSection(claim, conflict, section[s])
           e   == EvidenceState(claim, conflict, section[s].claimIds)
<1>1. /\ s \in DOMAIN section
      /\ section' = [section EXCEPT ![s] = row]
      /\ Audit(1)
      /\ UNCHANGED <<sources, claim, conflict, packets>>
  BY DEF ApproveSection
<1>2. /\ section[s] \in SectionRow(section[s].revision.evidence)
      /\ section[s].claimIds \in (SUBSET DOMAIN claim) \ {{}}
      /\ section[s].claimIds \in SUBSET Claims
  BY <1>1 DEF Typed, TypeOK, RowsTyped
<1>3. IsEvidenceState(e)
  BY <1>2, EvidenceStateTyped DEF Typed, TypeOK, RowsTyped
<1> HIDE DEF e
<1>4. /\ row \in SectionRow(row.revision.evidence)
      /\ row.claimIds = section[s].claimIds
      /\ row.position = section[s].position
      /\ row.revision.evidence = e
  <2> DEFINE rev == ApprovedRevision(claim, conflict, section[s].claimIds)
             v   == section[s].version + 1
  <2>1. v \in Nat
    BY <1>2 DEF SectionRow
  <2>2. /\ rev \in [claimIds : SUBSET Claims, approvalState : {"draft", "approved"},
                    evidence : {rev.evidence}]
        /\ rev.evidence = e
    BY <1>2 DEF ApprovedRevision, e
  <2>3. row = [section[s] EXCEPT !.version = v, !.approvalCurrent = TRUE, !.revision = rev]
    BY DEF ApprovedSection
  <2> HIDE DEF rev, v, row
  <2>4. /\ row.revision = rev
        /\ row.claimIds = section[s].claimIds
        /\ row.position = section[s].position
        /\ row \in SectionRow(rev.evidence)
    BY <1>2, <2>1, <2>2, <2>3 DEF SectionRow
  <2> QED
    BY <2>2, <2>4
<1> HIDE DEF row
<1>5. /\ DOMAIN section' = DOMAIN section \cup {s}
      /\ \A x \in DOMAIN section' : section'[x] = IF x = s THEN row ELSE section[x]
  BY <1>1
<1> QED
  BY <1>1, <1>2, <1>3, <1>4, <1>5, SectionStepTyped

LEMMA GeneratePacketTyped ==
  ASSUME Typed, NEW r \in Reviewers, NEW type \in PacketTypes, NEW key \in PacketKeys \cup {NoKey},
         GeneratePacket(r, type, key)
  PROVE  Typed'
<1> DEFINE entries == BuildPacket(claim, conflict, section, type)
           p       == [type |-> type, key |-> key, root |-> events, entries |-> entries]
           S       == {packets[i] : i \in DOMAIN packets}
<1>1. /\ packets' = Append(packets, p)
      /\ Audit(1)
      /\ UNCHANGED <<sources, claim, conflict, section>>
  BY DEF GeneratePacket
<1>2. events \in Nat /\ events' \in 0 .. MaxEvents /\ events' = events + 1
  BY <1>1, ConstantsAssumption DEF Typed, TypeOK, Audit
<1>3. /\ packets \in Seq(S)
      /\ \A i \in DOMAIN packets : IsPacket(packets[i])
  BY DEF Typed, TypeOK, PacketsTyped
<1>4. /\ p.type \in PacketTypes
      /\ p.key \in PacketKeys \cup {NoKey}
      /\ p.root \in 0 .. events' - 1
      /\ DOMAIN p.entries \subseteq DOMAIN section'
  BY <1>1, <1>2 DEF BuildPacket
<1> HIDE DEF p, S
<1>5. /\ DOMAIN packets' = 1 .. Len(packets) + 1
      /\ \A i \in DOMAIN packets' : packets'[i] = IF i = Len(packets) + 1 THEN p ELSE packets[i]
      /\ DOMAIN packets = 1 .. Len(packets)
      /\ Len(packets) \in Nat
      /\ Len(packets') = Len(packets) + 1
  BY <1>1, <1>3
<1>6. packets' \in Seq({packets'[i] : i \in DOMAIN packets'})
  <2> DEFINE S2 == {packets'[i] : i \in DOMAIN packets'}
  <2>1. S \subseteq S2
    BY <1>5 DEF S
  <2>2. p \in S2
    BY <1>5
  <2> HIDE DEF S2
  <2>3. packets \in Seq(S2)
    BY <1>3, <2>1
  <2>4. packets' \in Seq(S2)
    BY <1>1, <2>2, <2>3
  <2> QED
    BY <2>4 DEF S2
<1>7. \A i \in DOMAIN packets' : IsPacket(packets[i])' 
  <2> SUFFICES ASSUME NEW i \in DOMAIN packets'
               PROVE  IsPacket(packets[i])'
    OBVIOUS
  <2>1. CASE i = Len(packets) + 1
    BY <1>4, <1>5, <2>1 DEF IsPacket
  <2>2. CASE i # Len(packets) + 1
    <3>1. i \in DOMAIN packets /\ packets'[i] = packets[i]
      BY <1>5, <2>2
    <3> QED
      BY <1>1, <1>2, <1>3, <3>1 DEF IsPacket
  <2> QED
    BY <2>1, <2>2
<1>8. PacketsTyped'
  BY <1>6, <1>7 DEF PacketsTyped
<1>9. HasLastSection(section') /\ RowsTyped(claim', conflict', section') /\ sources' \subseteq Sources
  BY <1>1 DEF Typed, TypeOK
<1> QED
  BY <1>2, <1>8, <1>9 DEF Typed, TypeOK

LEMMA TypedStep == Typed /\ [Next]_vars => Typed'
<1> SUFFICES ASSUME Typed, [Next]_vars PROVE Typed'
  OBVIOUS
<1>1. CASE UNCHANGED vars
  BY <1>1 DEF vars, Typed, TypeOK, PacketsTyped, IsPacket
<1>2. ASSUME NEW r \in Reviewers, NEW d \in Sources, IngestSource(r, d)
      PROVE  Typed'
  BY <1>2, IngestSourceTyped
<1>3. ASSUME NEW r \in Reviewers, NEW c \in Claims, NEW d \in Sources, NEW q \in QuoteChoices,
             CreateClaim(r, c, d, q)
      PROVE  Typed'
  BY <1>3, CreateClaimTyped
<1>4. ASSUME NEW r \in Reviewers, NEW c \in Claims, VerifyQuote(r, c)
      PROVE  Typed'
  BY <1>4, VerifyQuoteTyped
<1>5. ASSUME NEW r \in Reviewers, NEW k \in Conflicts, NEW a \in Claims, NEW b \in Claims,
             NEW v \in SeverityChoices, FlagConflict(r, k, a, b, v)
      PROVE  Typed'
  BY <1>5, FlagConflictTyped
<1>6. ASSUME NEW r \in Reviewers, NEW k \in Conflicts, NEW t \in DecisionTypes, NEW x,
             Decide(r, k, t, x)
      PROVE  Typed'
  BY <1>6, DecideTyped
<1>7. ASSUME NEW r \in Reviewers, NEW s \in Sections, NEW p \in ParagraphRefs,
             NEW cited \in SUBSET Claims,
             DraftSection(r, s, p, cited) \/ ReviseSection(r, s, p, cited)
      PROVE  Typed'
  BY <1>7, DraftSectionTyped, ReviseSectionTyped
<1>8. ASSUME NEW r \in Reviewers, NEW s \in Sections, ApproveSection(r, s)
      PROVE  Typed'
  BY <1>8, ApproveSectionTyped
<1>9. ASSUME NEW r \in Reviewers, NEW type \in PacketTypes, NEW key \in PacketKeys \cup {NoKey},
             GeneratePacket(r, type, key)
      PROVE  Typed'
  BY <1>9, GeneratePacketTyped
<1> QED
  BY <1>1, <1>2, <1>3, <1>4, <1>5, <1>6, <1>7, <1>8, <1>9 DEF Next

\* Rows are typed and refer to rows that exist, in a matter of any size.
THEOREM TypeCorrectness == Spec => []TypeOK
<1>1. Spec => []Typed
  BY TypedInit, TypedStep, PTL DEF Spec
<1>2. Typed => TypeOK
  BY DEF Typed
<1> QED
  BY <1>1, <1>2, PTL

-----------------------------------------------------------------------------
(***************************************************************************)
(* Standings.                                                              *)
(***************************************************************************)

\* Conflict k is given a new row about the same claims, and these are derived
\* anew: every standing is right again.
LEMMA ReviewStandings ==
  ASSUME Typed, StandingFollowsConflicts, NEW k, NEW row,
         k \in DOMAIN conflict => ClaimsOf(conflict[k]) = ClaimsOf(row),
         conflict' = Put(conflict, k, row),
         \A j \in DOMAIN conflict' : conflict'[j] \in ConflictRow,
         claim' = RecomputeClaims(claim, conflict', ClaimsOf(row))
  PROVE  StandingFollowsConflicts'
<1>1. /\ DOMAIN conflict' = DOMAIN conflict \cup {k}
      /\ \A j \in DOMAIN conflict' : conflict'[j] = IF j = k THEN row ELSE conflict[j]
  BY DEF Put
<1>2. ASSUME NEW c \in DOMAIN claim \ ClaimsOf(row)
      PROVE  /\ RelatedConflicts(conflict', c) = RelatedConflicts(conflict, c)
             /\ \A j \in RelatedConflicts(conflict, c) : conflict'[j] = conflict[j]
  BY <1>1 DEF RelatedConflicts
<1>3. \A c \in DOMAIN claim : claim[c] \in ClaimRow
  BY DEF Typed, TypeOK, RowsTyped
<1>4. StandingsDerived(RecomputeClaims(claim, conflict', ClaimsOf(row)), conflict')
  BY <1>2, <1>3, RecomputeRestoresStandings DEF StandingFollowsConflicts
<1> QED
  BY <1>4 DEF StandingFollowsConflicts

LEMMA StandingsStep ==
  ASSUME Typed, StandingFollowsConflicts, [Next]_vars
  PROVE  StandingFollowsConflicts'
<1>1. ASSUME UNCHANGED <<claim, conflict>>
      PROVE  StandingFollowsConflicts'
  BY <1>1 DEF StandingFollowsConflicts
<1>2. ASSUME NEW r \in Reviewers, NEW c \in Claims, NEW d \in Sources, NEW q \in QuoteChoices,
             CreateClaim(r, c, d, q)
      PROVE  StandingFollowsConflicts'
  <2> DEFINE row == ExtractedClaim(r, Privilege[d], q)
  <2>1. /\ c \notin DOMAIN claim
        /\ claim' = Put(claim, c, row)
        /\ conflict' = conflict
    BY <1>2 DEF CreateClaim
  <2>2. RelatedConflicts(conflict, c) = {}
    BY <2>1 DEF Typed, TypeOK, RowsTyped, RelatedConflicts
  <2>3. StandingDerived(row, conflict, c)
    BY <2>2 DEF StandingDerived, EligibilityOf, ExtractedClaim
  <2> HIDE DEF row
  <2>4. \A x \in DOMAIN claim' : claim'[x] = IF x = c THEN row ELSE claim[x]
    BY <2>1 DEF Put
  <2>5. \A x \in DOMAIN claim' : StandingDerived(claim'[x], conflict, x)
    BY <2>1, <2>3, <2>4 DEF StandingFollowsConflicts, StandingsDerived, Put
  <2> QED
    BY <2>1, <2>5 DEF StandingFollowsConflicts, StandingsDerived
<1>3. ASSUME NEW r \in Reviewers, NEW c \in Claims, VerifyQuote(r, c)
      PROVE  StandingFollowsConflicts'
  <2> DEFINE row == Attested(claim[c], r, conflict, c)
  <2>1. /\ c \in DOMAIN claim
        /\ claim' = [claim EXCEPT ![c] = row]
        /\ conflict' = conflict
    BY <1>3 DEF VerifyQuote
  <2>2. /\ row.status = claim[c].status
        /\ row.reportEligibility = EligibilityOf(row, conflict, c)
    BY <2>1, AttestedTyped DEF Typed, TypeOK, RowsTyped
  <2> HIDE DEF row
  <2>3. StandingDerived(row, conflict, c)
    BY <2>1, <2>2 DEF StandingFollowsConflicts, StandingsDerived, StandingDerived
  <2>4. \A x \in DOMAIN claim' : StandingDerived(claim'[x], conflict, x)
    BY <2>1, <2>3 DEF StandingFollowsConflicts, StandingsDerived
  <2> QED
    BY <2>1, <2>4 DEF StandingFollowsConflicts, StandingsDerived
<1>4. ASSUME NEW r \in Reviewers, NEW k \in Conflicts, NEW a \in Claims, NEW b \in Claims,
             NEW v \in SeverityChoices, FlagConflict(r, k, a, b, v)
      PROVE  StandingFollowsConflicts'
  <2> DEFINE row == FlaggedConflict(a, b, v)
  <2>1. /\ k \notin DOMAIN conflict
        /\ conflict' = Put(conflict, k, row)
        /\ claim' = RecomputeClaims(claim, conflict', {a, b})
    BY <1>4 DEF FlagConflict
  <2>2. ClaimsOf(row) = {a, b}
    BY DEF ClaimsOf, FlaggedConflict
  <2>3. row \in ConflictRow
    BY ConstantsAssumption, FlaggedTyped
  <2> HIDE DEF row
  <2>4. \A j \in DOMAIN conflict' : conflict'[j] \in ConflictRow
    BY <2>1, <2>3 DEF Put, Typed, TypeOK, RowsTyped
  <2> QED
    BY <2>1, <2>2, <2>4, ReviewStandings
<1>5. ASSUME NEW r \in Reviewers, NEW k \in Conflicts, NEW t \in DecisionTypes, NEW x,
             Decide(r, k, t, x)
      PROVE  StandingFollowsConflicts'
  <2> DEFINE row == Decided(conflict[k], t, x)
  <2>1. /\ row \in ConflictRow
        /\ ClaimsOf(row) = ClaimsOf(conflict[k])
        /\ conflict' = Put(conflict, k, row)
        /\ claim' = RecomputeClaims(claim, conflict', ClaimsOf(row))
    BY <1>5, DecideRows DEF ClaimsOf
  <2> HIDE DEF row
  <2>2. \A j \in DOMAIN conflict' : conflict'[j] \in ConflictRow
    BY <2>1 DEF Put, Typed, TypeOK, RowsTyped
  <2> QED
    BY <2>1, <2>2, ReviewStandings
<1> QED
  BY <1>1, <1>2, <1>3, <1>4, <1>5
     DEF Next, vars, IngestSource, DraftSection, ReviseSection, ApproveSection, GeneratePacket

\* The status and eligibility of every claim are, at all times and in a matter of
\* any size, what all its conflicts together make of it.
THEOREM StandingsCorrect == Spec => []StandingFollowsConflicts
<1>1. Init => StandingFollowsConflicts
  BY OpeningAssumption DEF Init, StandingFollowsConflicts
<1>2. Typed /\ StandingFollowsConflicts /\ [Next]_vars => StandingFollowsConflicts'
  BY StandingsStep
<1> QED
  BY <1>1, <1>2, TypedInit, TypedStep, PTL DEF Spec

-----------------------------------------------------------------------------
(***************************************************************************)
(* Conflicts.                                                              *)
(***************************************************************************)

\* Conflict k is given a row that, if it is open, is the only open one of its
\* pair.
LEMMA PutKeepsPairsDistinct ==
  ASSUME NEW cf, NEW k, NEW row, OpenPairsDistinct(cf),
         row.status \in OpenConflictStatuses => ~OtherOpenConflict(cf, row.claimA, row.claimB, k)
  PROVE  OpenPairsDistinct(Put(cf, k, row))
<1> DEFINE new == Put(cf, k, row)
<1>1. /\ DOMAIN new = DOMAIN cf \cup {k}
      /\ \A j \in DOMAIN new : new[j] = IF j = k THEN row ELSE cf[j]
  BY DEF Put
<1> HIDE DEF new
<1>2. ASSUME row.status \in OpenConflictStatuses, NEW j \in DOMAIN cf \ {k},
             cf[j].status \in OpenConflictStatuses
      PROVE  ClaimsOf(cf[j]) # ClaimsOf(row)
  BY <1>2 DEF OtherOpenConflict, ClaimsOf
<1> QED
  BY <1>1, <1>2 DEF OpenPairsDistinct, SamePair, new

LEMMA PairsStep == Typed /\ OneOpenConflictPerPair /\ [Next]_vars => OneOpenConflictPerPair'
<1> SUFFICES ASSUME Typed, OneOpenConflictPerPair, [Next]_vars
             PROVE  OneOpenConflictPerPair'
  OBVIOUS
<1>1. ASSUME UNCHANGED conflict
      PROVE  OneOpenConflictPerPair'
  BY <1>1 DEF OneOpenConflictPerPair
<1>2. ASSUME NEW r \in Reviewers, NEW k \in Conflicts, NEW a \in Claims, NEW b \in Claims,
             NEW v \in SeverityChoices, FlagConflict(r, k, a, b, v)
      PROVE  OneOpenConflictPerPair'
  <2> DEFINE row == FlaggedConflict(a, b, v)
  <2>1. /\ ~OtherOpenConflict(conflict, row.claimA, row.claimB, k)
        /\ conflict' = Put(conflict, k, row)
    BY <1>2 DEF FlagConflict, FlaggedConflict
  <2> HIDE DEF row
  <2> QED
    BY <2>1, PutKeepsPairsDistinct DEF OneOpenConflictPerPair
<1>3. ASSUME NEW r \in Reviewers, NEW k \in Conflicts, NEW t \in DecisionTypes, NEW x,
             Decide(r, k, t, x)
      PROVE  OneOpenConflictPerPair'
  <2> DEFINE row == Decided(conflict[k], t, x)
  <2>1. row.status \in OpenConflictStatuses =>
          ~OtherOpenConflict(conflict, row.claimA, row.claimB, k)
    BY <1>3 DEF Decide
  <2>2. conflict' = Put(conflict, k, row)
    BY <1>3, DecideRows
  <2> HIDE DEF row
  <2> QED
    BY <2>1, <2>2, PutKeepsPairsDistinct DEF OneOpenConflictPerPair
<1> QED
  BY <1>1, <1>2, <1>3
     DEF Next, vars, IngestSource, CreateClaim, VerifyQuote, DraftSection, ReviseSection,
         ApproveSection, GeneratePacket

\* No sequence of flags, decisions and reopenings leaves a pair of claims with two
\* open conflicts.
THEOREM PairsCorrect == Spec => []OneOpenConflictPerPair
<1>1. Init => OneOpenConflictPerPair
  BY OpeningAssumption DEF Init, OneOpenConflictPerPair
<1> QED
  BY <1>1, PairsStep, TypedInit, TypedStep, PTL DEF Spec

DispositionsMatch == DispositionsMatchStatus(conflict)

LEMMA PutKeepsDispositions ==
  ASSUME NEW cf, NEW k, NEW row, DispositionsMatchStatus(cf),
         [a |-> row.claimADisposition, b |-> row.claimBDisposition] \in DispositionsFor(row.status)
  PROVE  DispositionsMatchStatus(Put(cf, k, row))
<1>1. /\ DOMAIN Put(cf, k, row) = DOMAIN cf \cup {k}
      /\ \A j \in DOMAIN Put(cf, k, row) : Put(cf, k, row)[j] = IF j = k THEN row ELSE cf[j]
  BY DEF Put
<1> QED
  BY <1>1 DEF DispositionsMatchStatus

\* Which claim a decision discredits does not change what becomes of the conflict.
LEMMA TransitionStatus ==
  ASSUME NEW d \in DecisionTypes, NEW x, NEW y
  PROVE  TransitionFor(d, x).conflict = TransitionFor(d, y).conflict
BY DEF TransitionFor, DecisionTypes

LEMMA DispositionsStep == Typed /\ DispositionsMatch /\ [Next]_vars => DispositionsMatch'
<1> SUFFICES ASSUME Typed, DispositionsMatch, [Next]_vars
             PROVE  DispositionsMatch'
  OBVIOUS
<1>1. ASSUME UNCHANGED conflict
      PROVE  DispositionsMatch'
  BY <1>1 DEF DispositionsMatch
<1>2. ASSUME NEW r \in Reviewers, NEW k \in Conflicts, NEW a \in Claims, NEW b \in Claims,
             NEW v \in SeverityChoices, FlagConflict(r, k, a, b, v)
      PROVE  DispositionsMatch'
  <2> DEFINE row == FlaggedConflict(a, b, v)
  <2>1. conflict' = Put(conflict, k, row)
    BY <1>2 DEF FlagConflict
  <2>2. /\ row.status = "unresolved"
        /\ row.claimADisposition = "disputed"
        /\ row.claimBDisposition = "disputed"
    BY DEF FlaggedConflict
  <2>3. [a |-> "disputed", b |-> "disputed"] \in DispositionsFor("unresolved")
    <3>1. /\ TransitionFor("mark_unresolved", "a")
                = [conflict |-> "unresolved", a |-> "disputed", b |-> "disputed"]
          /\ "mark_unresolved" \in DecisionTypes
      BY DEF TransitionFor, DecisionTypes
    <3> QED
      BY <3>1 DEF DispositionsFor
  <2> HIDE DEF row
  <2> QED
    BY <2>1, <2>2, <2>3, PutKeepsDispositions DEF DispositionsMatch
<1>3. ASSUME NEW r \in Reviewers, NEW k \in Conflicts, NEW t \in DecisionTypes, NEW x \in {"a", "b"},
             Decide(r, k, t, x)
      PROVE  DispositionsMatch'
  <2> DEFINE row == Decided(conflict[k], t, x)
             T   == TransitionFor(t, x)
  <2>1. conflict' = Put(conflict, k, row) /\ conflict[k] \in ConflictRow
    BY <1>3, DecideRows
  <2>2. row = [conflict[k] EXCEPT !.status = T.conflict, !.claimADisposition = T.a,
                                  !.claimBDisposition = T.b, !.version = @ + 1]
    BY DEF Decided
  <2>3. [a |-> T.a, b |-> T.b] \in DispositionsFor(T.conflict)
    <3>1. TransitionFor(t, "a").conflict = T.conflict
      BY TransitionStatus
    <3> QED
      BY <3>1 DEF DispositionsFor
  <2> HIDE DEF row, T
  <2>4. /\ row.status = T.conflict
        /\ row.claimADisposition = T.a
        /\ row.claimBDisposition = T.b
    BY <2>1, <2>2 DEF ConflictRow
  <2> QED
    BY <2>1, <2>3, <2>4, PutKeepsDispositions DEF DispositionsMatch
<1> QED
  BY <1>1, <1>2, <1>3
     DEF Next, vars, IngestSource, CreateClaim, VerifyQuote, DraftSection, ReviseSection,
         ApproveSection, GeneratePacket

LEMMA DispositionsCorrect == Spec => []DispositionsMatch
<1>1. Init => DispositionsMatch
  BY OpeningAssumption DEF Init, DispositionsMatch
<1> QED
  BY <1>1, DispositionsStep, TypedInit, TypedStep, PTL DEF Spec

-----------------------------------------------------------------------------
(***************************************************************************)
(* Claims that lost a conflict.                                            *)
(***************************************************************************)

\* A step that does not bump the version of a conflict does not touch its row.
LEMMA SameVersionSameRow ==
  ASSUME Typed, [Next]_vars, NEW k \in DOMAIN conflict
  PROVE  /\ k \in DOMAIN conflict'
         /\ conflict'[k].version = conflict[k].version => conflict'[k] = conflict[k]
<1>1. ASSUME UNCHANGED conflict
      PROVE  /\ k \in DOMAIN conflict'
             /\ conflict'[k].version = conflict[k].version => conflict'[k] = conflict[k]
  BY <1>1
<1>2. ASSUME NEW r \in Reviewers, NEW j \in Conflicts, NEW a \in Claims, NEW b \in Claims,
             NEW v \in SeverityChoices, FlagConflict(r, j, a, b, v)
      PROVE  /\ k \in DOMAIN conflict'
             /\ conflict'[k].version = conflict[k].version => conflict'[k] = conflict[k]
  BY <1>2 DEF FlagConflict, Put
<1>3. ASSUME NEW r \in Reviewers, NEW j \in Conflicts, NEW t \in DecisionTypes, NEW x,
             Decide(r, j, t, x)
      PROVE  /\ k \in DOMAIN conflict'
             /\ conflict'[k].version = conflict[k].version => conflict'[k] = conflict[k]
  <2> DEFINE row == Decided(conflict[j], t, x)
  <2>1. /\ j \in DOMAIN conflict
        /\ conflict[j] \in ConflictRow
        /\ conflict' = Put(conflict, j, row)
    BY <1>3, DecideRows
  <2>2. row.version = conflict[j].version + 1 /\ conflict[j].version \in Nat
    BY <2>1, DecidedTyped DEF ConflictRow
  <2> HIDE DEF row
  <2> QED
    BY <2>1, <2>2 DEF Put
<1> QED
  BY <1>1, <1>2, <1>3
     DEF Next, vars, IngestSource, CreateClaim, VerifyQuote, DraftSection, ReviseSection,
         ApproveSection, GeneratePacket

\* Only a losing standing is at least as decisive as a losing one.
LEMMA NothingBeatsALoser ==
  ASSUME NEW lost \in {"rejected", "superseded"}, NEW d \in ClaimStatuses,
         Precedence[d] <= Precedence[lost]
  PROVE  d \in {"rejected", "superseded"}
BY DEF Precedence, ClaimStatuses

\* A claim with a losing standing is not eligible.
LEMMA LoserIneligible ==
  ASSUME NEW row, NEW cf, NEW c, NEW k \in RelatedConflicts(cf, c),
         \A j \in DOMAIN cf : cf[j] \in ConflictRow,
         StandingDerived(row, cf, c),
         Disposition(cf[k], c) \in {"rejected", "superseded"}
  PROVE  row.reportEligibility \in {"excluded", "privileged"}
<1> DEFINE standings == {Disposition(cf[j], c) : j \in RelatedConflicts(cf, c)}
<1>1. standings \subseteq ClaimStatuses
  BY DEF Disposition, RelatedConflicts, ConflictRow
<1>2. Disposition(cf[k], c) \in standings
  OBVIOUS
<1>3. /\ row.status \in standings
      /\ \A d \in standings : Precedence[row.status] <= Precedence[d]
      /\ row.reportEligibility = EligibilityOf(row, cf, c)
  BY <1>2 DEF StandingDerived
<1> HIDE DEF standings
<1>4. row.status \in {"rejected", "superseded"}
  <2>1. Disposition(cf[k], c) \in ClaimStatuses /\ row.status \in ClaimStatuses
    BY <1>1, <1>2, <1>3
  <2>2. Precedence[row.status] <= Precedence[Disposition(cf[k], c)]
    BY <1>2, <1>3
  <2> QED
    BY <2>1, <2>2, NothingBeatsALoser
<1> QED
  BY <1>3, <1>4 DEF EligibilityOf, ClaimEligibility

\* A claim that lost a conflict stays out of every report until that conflict is
\* decided again.
THEOREM LosersCorrect == Spec => LosersStayOut
<1> DEFINE A == \A k \in DOMAIN conflict :
                  conflict'[k].version = conflict[k].version =>
                    \A c \in ClaimsOf(conflict[k]) :
                      Disposition(conflict[k], c) \in {"rejected", "superseded"} =>
                        claim'[c].reportEligibility \in {"excluded", "privileged"}
<1>1. Typed /\ Typed' /\ StandingFollowsConflicts' /\ [Next]_vars => A
  <2> SUFFICES ASSUME Typed, Typed', StandingFollowsConflicts', [Next]_vars,
                      NEW k \in DOMAIN conflict,
                      conflict'[k].version = conflict[k].version,
                      NEW c \in ClaimsOf(conflict[k]),
                      Disposition(conflict[k], c) \in {"rejected", "superseded"}
               PROVE  claim'[c].reportEligibility \in {"excluded", "privileged"}
    OBVIOUS
  <2>1. k \in DOMAIN conflict' /\ conflict'[k] = conflict[k]
    BY SameVersionSameRow
  <2>2. k \in RelatedConflicts(conflict', c)
    BY <2>1 DEF RelatedConflicts
  <2>3. /\ c \in DOMAIN claim'
        /\ \A j \in DOMAIN conflict' : conflict'[j] \in ConflictRow
    BY <2>1 DEF Typed, TypeOK, RowsTyped
  <2>4. StandingDerived(claim'[c], conflict', c)
    BY <2>3 DEF StandingFollowsConflicts, StandingsDerived
  <2> QED
    BY <2>1, <2>2, <2>3, <2>4, LoserIneligible
<1>2. Spec => []Typed
  BY TypedInit, TypedStep, PTL DEF Spec
<1> HIDE DEF A
<1>3. Typed /\ Typed' /\ StandingFollowsConflicts' /\ [Next]_vars => [A]_vars
  BY <1>1
<1>4. Spec => [][A]_vars
  BY <1>2, <1>3, StandingsCorrect, PTL DEF Spec
<1> QED
  BY <1>4 DEF LosersStayOut, A

-----------------------------------------------------------------------------
(***************************************************************************)
(* Attestations, paragraphs and keys.                                      *)
(***************************************************************************)

LEMMA AttestationsStep ==
  ASSUME Typed, AttestedBySecondReviewer, [Next]_vars
  PROVE  AttestedBySecondReviewer'
<1> DEFINE Kept(new, old) == /\ new.quoteVerification = old.quoteVerification
                             /\ new.author = old.author
                             /\ new.attestedBy = old.attestedBy
<1>1. ASSUME \A c \in DOMAIN claim' : c \in DOMAIN claim /\ Kept(claim'[c], claim[c])
      PROVE  AttestedBySecondReviewer'
  BY <1>1 DEF AttestedBySecondReviewer, AttestationsIndependent
<1>2. ASSUME NEW r \in Reviewers, NEW c \in Claims, NEW d \in Sources, NEW q \in QuoteChoices,
             CreateClaim(r, c, d, q)
      PROVE  AttestedBySecondReviewer'
  <2> DEFINE row == ExtractedClaim(r, Privilege[d], q)
  <2>1. claim' = Put(claim, c, row)
    BY <1>2 DEF CreateClaim
  <2>2. row.quoteVerification # "manually_verified"
    BY ConstantsAssumption DEF ExtractedClaim, QuoteOutcomes
  <2> HIDE DEF row
  <2> QED
    BY <2>1, <2>2 DEF Put, AttestedBySecondReviewer, AttestationsIndependent
<1>3. ASSUME NEW r \in Reviewers, NEW c \in Claims, VerifyQuote(r, c)
      PROVE  AttestedBySecondReviewer'
  <2> DEFINE row == Attested(claim[c], r, conflict, c)
  <2>1. /\ c \in DOMAIN claim
        /\ claim[c].author # r
        /\ HasPrivilegeClearance(Role[r])
        /\ claim' = [claim EXCEPT ![c] = row]
    BY <1>3 DEF VerifyQuote
  <2>2. row.author = claim[c].author /\ row.attestedBy = r
    BY <2>1, AttestedTyped DEF Typed, TypeOK, RowsTyped
  <2> HIDE DEF row
  <2> QED
    BY <2>1, <2>2 DEF AttestedBySecondReviewer, AttestationsIndependent
<1>4. ASSUME NEW S, \A j \in DOMAIN conflict' : conflict'[j] \in ConflictRow,
             claim' = RecomputeClaims(claim, conflict', S)
      PROVE  AttestedBySecondReviewer'
  <2>1. \A c \in DOMAIN claim : claim[c] \in ClaimRow
    BY DEF Typed, TypeOK, RowsTyped
  <2>2. \A c \in DOMAIN claim' : c \in DOMAIN claim /\ Kept(claim'[c], claim[c])
    BY <1>4, <2>1, RecomputeClaimsTyped
  <2> QED
    BY <1>1, <2>2
<1>5. \A j \in DOMAIN conflict' : conflict'[j] \in ConflictRow
  BY TypedStep DEF Typed, TypeOK, RowsTyped
<1>6. ASSUME NEW r \in Reviewers, NEW k \in Conflicts, NEW a \in Claims, NEW b \in Claims,
             NEW v \in SeverityChoices, FlagConflict(r, k, a, b, v)
      PROVE  AttestedBySecondReviewer'
  BY <1>4, <1>5, <1>6 DEF FlagConflict
<1>7. ASSUME NEW r \in Reviewers, NEW k \in Conflicts, NEW t \in DecisionTypes, NEW x,
             Decide(r, k, t, x)
      PROVE  AttestedBySecondReviewer'
  BY <1>4, <1>5, <1>7, DecideRows
<1>8. ASSUME UNCHANGED claim
      PROVE  AttestedBySecondReviewer'
  BY <1>1, <1>8
<1> QED
  BY <1>2, <1>3, <1>6, <1>7, <1>8
     DEF Next, vars, IngestSource, DraftSection, ReviseSection, ApproveSection, GeneratePacket

\* No human attestation to a quote is by the reviewer who extracted the claim.
THEOREM AttestationsCorrect == Spec => []AttestedBySecondReviewer
<1>1. Init => AttestedBySecondReviewer
  BY OpeningAssumption DEF Init, AttestedBySecondReviewer
<1>2. Typed /\ AttestedBySecondReviewer /\ [Next]_vars => AttestedBySecondReviewer'
  BY AttestationsStep
<1> QED
  BY <1>1, <1>2, TypedInit, TypedStep, PTL DEF Spec

\* Every step changes the evidence, one section, or the packets, if it changes
\* anything.
LEMMA StepKinds ==
  ASSUME [Next]_vars
  PROVE  \/ WithdrawApprovals /\ UNCHANGED packets
         \/ /\ UNCHANGED <<claim, conflict, packets>>
            /\ \E r \in Reviewers, s \in Sections, p \in ParagraphRefs, cited \in SUBSET Claims :
                 DraftSection(r, s, p, cited) \/ ReviseSection(r, s, p, cited)
         \/ /\ UNCHANGED <<claim, conflict, packets>>
            /\ \E r \in Reviewers, s \in Sections : ApproveSection(r, s)
         \/ /\ UNCHANGED <<claim, conflict, section>>
            /\ \E r \in Reviewers, type \in PacketTypes, key \in PacketKeys \cup {NoKey} :
                 GeneratePacket(r, type, key)
         \/ UNCHANGED <<claim, conflict, section, packets>>
<1>1. ASSUME NEW r, NEW d, IngestSource(r, d)
      PROVE  WithdrawApprovals /\ UNCHANGED packets
  BY <1>1 DEF IngestSource
<1>2. ASSUME NEW r, NEW c, NEW d, NEW q, CreateClaim(r, c, d, q)
      PROVE  WithdrawApprovals /\ UNCHANGED packets
  BY <1>2 DEF CreateClaim
<1>3. ASSUME NEW r, NEW c, VerifyQuote(r, c)
      PROVE  WithdrawApprovals /\ UNCHANGED packets
  BY <1>3 DEF VerifyQuote
<1>4. ASSUME NEW r, NEW k, NEW a, NEW b, NEW v, FlagConflict(r, k, a, b, v)
      PROVE  WithdrawApprovals /\ UNCHANGED packets
  BY <1>4 DEF FlagConflict
<1>5. ASSUME NEW r, NEW k, NEW t, NEW x, Decide(r, k, t, x)
      PROVE  WithdrawApprovals /\ UNCHANGED packets
  BY <1>5 DEF Decide
<1>6. ASSUME NEW r, NEW s, NEW p, NEW cited, DraftSection(r, s, p, cited) \/ ReviseSection(r, s, p, cited)
      PROVE  UNCHANGED <<claim, conflict, packets>>
  BY <1>6 DEF DraftSection, ReviseSection
<1>7. ASSUME NEW r, NEW s, ApproveSection(r, s)
      PROVE  UNCHANGED <<claim, conflict, packets>>
  BY <1>7 DEF ApproveSection
<1>8. ASSUME NEW r, NEW type, NEW key, GeneratePacket(r, type, key)
      PROVE  UNCHANGED <<claim, conflict, section>>
  BY <1>8 DEF GeneratePacket
<1>9. UNCHANGED vars => UNCHANGED <<claim, conflict, section, packets>>
  BY DEF vars
<1> QED
  BY <1>1, <1>2, <1>3, <1>4, <1>5, <1>6, <1>7, <1>8, <1>9 DEF Next

LEMMA ResetKeepsPlaces ==
  ASSUME NEW sec, NEW S, \A s \in DOMAIN sec : sec[s] \in SectionRow(sec[s].revision.evidence)
  PROVE  LET new == ResetApprovals(sec, S)
         IN  /\ DOMAIN new = DOMAIN sec
             /\ \A s \in DOMAIN sec :
                  /\ new[s].paragraphRef = sec[s].paragraphRef
                  /\ new[s].position = sec[s].position
<1> DEFINE new == ResetApprovals(sec, S)
<1>1. DOMAIN new = DOMAIN sec
  BY DEF ResetApprovals
<1>2. ASSUME NEW s \in DOMAIN sec
      PROVE  /\ new[s].paragraphRef = sec[s].paragraphRef
             /\ new[s].position = sec[s].position
  <2>1. new[s] = IF s \in S THEN [sec[s] EXCEPT !.approvalCurrent = FALSE] ELSE sec[s]
    BY DEF ResetApprovals
  <2> HIDE DEF new
  <2> QED
    BY <2>1 DEF SectionRow
<1> QED
  BY <1>1, <1>2

\* Section s is given a reference no other section has and keeps its position, or
\* takes one after every other.
LEMMA PlacedSection ==
  ASSUME Typed, ParagraphsAreDistinct, NEW s, NEW row,
         DOMAIN section' = DOMAIN section \cup {s},
         \A x \in DOMAIN section' : section'[x] = IF x = s THEN row ELSE section[x],
         ParagraphRefFree(section, row.paragraphRef, s),
         \/ s \in DOMAIN section /\ row.position = section[s].position
         \/ \A x \in DOMAIN section : section[x].position < row.position
  PROVE  ParagraphsAreDistinct'
<1>1. \A x \in DOMAIN section : section[x].position \in Nat
  BY DEF Typed, TypeOK, RowsTyped, SectionRow
<1>2. ASSUME NEW x \in DOMAIN section \ {s}
      PROVE  section[x].paragraphRef # row.paragraphRef /\ section[x].position # row.position
  BY <1>1, <1>2 DEF ParagraphRefFree, ParagraphsAreDistinct, ParagraphsDistinct
<1> QED
  BY <1>2 DEF ParagraphsAreDistinct, ParagraphsDistinct

LEMMA ParagraphsStep ==
  ASSUME Typed, ParagraphsAreDistinct, [Next]_vars
  PROVE  ParagraphsAreDistinct'
<1>1. \A s \in DOMAIN section : section[s] \in SectionRow(section[s].revision.evidence)
  BY DEF Typed, TypeOK, RowsTyped
<1>2. ASSUME WithdrawApprovals
      PROVE  ParagraphsAreDistinct'
  <2> DEFINE new == ResetApprovals(section, DOMAIN section)
  <2>1. section' = new
    BY <1>2 DEF WithdrawApprovals
  <2>2. /\ DOMAIN new = DOMAIN section
        /\ \A s \in DOMAIN section : /\ new[s].paragraphRef = section[s].paragraphRef
                                     /\ new[s].position = section[s].position
    BY <1>1, ResetKeepsPlaces
  <2> HIDE DEF new
  <2> QED
    BY <2>1, <2>2 DEF ParagraphsAreDistinct, ParagraphsDistinct
<1>3. ASSUME UNCHANGED section
      PROVE  ParagraphsAreDistinct'
  BY <1>3 DEF ParagraphsAreDistinct
<1>4. ASSUME NEW r \in Reviewers, NEW s \in Sections, NEW p \in ParagraphRefs,
             NEW cited \in SUBSET Claims, DraftSection(r, s, p, cited)
      PROVE  ParagraphsAreDistinct'
  <2> DEFINE row == DraftedSection(p, NextPosition(section), cited)
  <2>1. /\ ParagraphRefFree(section, p, s)
        /\ section' = Put(section, s, row)
    BY <1>4 DEF DraftSection
  <2>2. row.paragraphRef = p /\ row.position = NextPosition(section)
    BY DEF DraftedSection
  <2>3. \A x \in DOMAIN section : section[x].position < NextPosition(section)
    BY NextPositionIsLast DEF Typed, TypeOK, RowsTyped, SectionRow
  <2> HIDE DEF row
  <2>4. /\ DOMAIN section' = DOMAIN section \cup {s}
        /\ \A x \in DOMAIN section' : section'[x] = IF x = s THEN row ELSE section[x]
    BY <2>1 DEF Put
  <2> QED
    BY <2>1, <2>2, <2>3, <2>4, PlacedSection
<1>5. ASSUME NEW r \in Reviewers, NEW s \in Sections, NEW p \in ParagraphRefs,
             NEW cited \in SUBSET Claims, ReviseSection(r, s, p, cited)
      PROVE  ParagraphsAreDistinct'
  <2> DEFINE row == Revised(section[s], p, cited)
  <2>1. /\ s \in DOMAIN section
        /\ ParagraphRefFree(section, p, s)
        /\ section' = [section EXCEPT ![s] = row]
    BY <1>5 DEF ReviseSection
  <2>2. row.paragraphRef = p /\ row.position = section[s].position
    BY <1>1, <2>1 DEF Revised, SectionRow
  <2> HIDE DEF row
  <2>3. /\ DOMAIN section' = DOMAIN section \cup {s}
        /\ \A x \in DOMAIN section' : section'[x] = IF x = s THEN row ELSE section[x]
    BY <2>1
  <2> QED
    BY <2>1, <2>2, <2>3, PlacedSection
<1>6. ASSUME NEW r \in Reviewers, NEW s \in Sections, ApproveSection(r, s)
      PROVE  ParagraphsAreDistinct'
  <2> DEFINE row == ApprovedSection(claim, conflict, section[s])
  <2>1. /\ s \in DOMAIN section
        /\ section' = [section EXCEPT ![s] = row]
    BY <1>6 DEF ApproveSection
  <2>2. row.paragraphRef = section[s].paragraphRef /\ row.position = section[s].position
    BY <1>1, <2>1 DEF ApprovedSection, SectionRow
  <2> HIDE DEF row
  <2>3. ParagraphRefFree(section, row.paragraphRef, s)
    BY <2>1, <2>2 DEF ParagraphRefFree, ParagraphsAreDistinct, ParagraphsDistinct
  <2>4. /\ DOMAIN section' = DOMAIN section \cup {s}
        /\ \A x \in DOMAIN section' : section'[x] = IF x = s THEN row ELSE section[x]
    BY <2>1
  <2> QED
    BY <2>1, <2>2, <2>3, <2>4, PlacedSection
<1> QED
  BY <1>2, <1>3, <1>4, <1>5, <1>6, StepKinds

\* No two sections share a paragraph reference or a position.
THEOREM ParagraphsCorrect == Spec => []ParagraphsAreDistinct
<1>1. Init => ParagraphsAreDistinct
  BY OpeningAssumption DEF Init, ParagraphsAreDistinct
<1>2. Typed /\ ParagraphsAreDistinct /\ [Next]_vars => ParagraphsAreDistinct'
  BY ParagraphsStep
<1> QED
  BY <1>1, <1>2, TypedInit, TypedStep, PTL DEF Spec

LEMMA KeysStep ==
  ASSUME Typed, OnePacketPerKey, [Next]_vars
  PROVE  OnePacketPerKey'
<1>1. ASSUME UNCHANGED packets
      PROVE  OnePacketPerKey'
  BY <1>1 DEF OnePacketPerKey
<1>2. ASSUME NEW r \in Reviewers, NEW type \in PacketTypes, NEW key \in PacketKeys \cup {NoKey},
             GeneratePacket(r, type, key)
      PROVE  OnePacketPerKey'
  <2> DEFINE p == [type |-> type, key |-> key, root |-> events,
                   entries |-> BuildPacket(claim, conflict, section, type)]
  <2>1. /\ packets' = Append(packets, p)
        /\ key \notin UsedKeys(packets, NoKey)
    BY <1>2 DEF GeneratePacket
  <2>2. p.key = key
    OBVIOUS
  <2> HIDE DEF p
  <2>3. packets \in Seq({packets[i] : i \in DOMAIN packets})
    BY DEF Typed, TypeOK, PacketsTyped
  <2>4. /\ DOMAIN packets = 1 .. Len(packets)
        /\ Len(packets) \in Nat
        /\ DOMAIN packets' = 1 .. Len(packets) + 1
        /\ \A i \in DOMAIN packets' : packets'[i] = IF i = Len(packets) + 1 THEN p ELSE packets[i]
    BY <2>1, <2>3
  <2>5. \A i \in DOMAIN packets : packets[i].key # key \/ key = NoKey
    BY <2>1 DEF UsedKeys
  <2> QED
    BY <2>2, <2>4, <2>5 DEF OnePacketPerKey
<1> QED
  BY <1>1, <1>2, StepKinds

\* A packet key names one packet, however often the request is repeated.
THEOREM KeysCorrect == Spec => []OnePacketPerKey
<1>1. Init => OnePacketPerKey
  BY DEF Init, OnePacketPerKey
<1>2. Typed /\ OnePacketPerKey /\ [Next]_vars => OnePacketPerKey'
  BY KeysStep
<1> QED
  BY <1>1, <1>2, TypedInit, TypedStep, PTL DEF Spec

-----------------------------------------------------------------------------
(***************************************************************************)
(* Approvals.                                                              *)
(***************************************************************************)

\* What an approval that is current says of its section.
ApprovalHolds(cl, cf, row) ==
  /\ row.revision.claimIds = row.claimIds
  /\ RevisionApprovalIsCurrent(cl, cf, row.revision)
  /\ ImpactOf(cl, cf, row.claimIds) \in UsableSectionStatuses

\* Section s is given a row whose approval holds or is not current, and the
\* evidence does not change.
LEMMA ReplacedSection ==
  ASSUME ApprovalStandsOnCurrentEvidence, UNCHANGED <<claim, conflict>>,
         NEW s, NEW row,
         DOMAIN section' = DOMAIN section \cup {s},
         \A x \in DOMAIN section' : section'[x] = IF x = s THEN row ELSE section[x],
         row.approvalCurrent => ApprovalHolds(claim, conflict, row)
  PROVE  ApprovalStandsOnCurrentEvidence'
<1> SUFFICES ASSUME NEW x \in DOMAIN section', section'[x].approvalCurrent
             PROVE  ApprovalHolds(claim, conflict, section'[x])
  BY DEF ApprovalStandsOnCurrentEvidence, ApprovalsStand, ApprovalHolds
<1>1. CASE x = s
  BY <1>1
<1>2. CASE x # s
  BY <1>2 DEF ApprovalStandsOnCurrentEvidence, ApprovalsStand, ApprovalHolds
<1> QED
  BY <1>1, <1>2

LEMMA ApprovalsStep ==
  ASSUME Typed, ApprovalStandsOnCurrentEvidence, [Next]_vars
  PROVE  ApprovalStandsOnCurrentEvidence'
<1>1. \A s \in DOMAIN section : section[s] \in SectionRow(section[s].revision.evidence)
  BY DEF Typed, TypeOK, RowsTyped
<1>7. \A s \in DOMAIN section : section[s].claimIds # {}
  BY DEF Typed, TypeOK, RowsTyped
<1>2. ASSUME WithdrawApprovals
      PROVE  ApprovalStandsOnCurrentEvidence'
  <2> DEFINE new == ResetApprovals(section, DOMAIN section)
  <2>1. section' = new
    BY <1>2 DEF WithdrawApprovals
  <2>2. DOMAIN new = DOMAIN section
    BY DEF ResetApprovals
  <2>3. ASSUME NEW s \in DOMAIN section
        PROVE  new[s].approvalCurrent = FALSE
    <3>1. new[s] = [section[s] EXCEPT !.approvalCurrent = FALSE]
      BY DEF ResetApprovals
    <3> HIDE DEF new
    <3> QED
      BY <1>1, <3>1 DEF SectionRow
  <2> HIDE DEF new
  <2> QED
    BY <2>1, <2>2, <2>3 DEF ApprovalStandsOnCurrentEvidence, ApprovalsStand
<1>3. ASSUME UNCHANGED <<claim, conflict, section>>
      PROVE  ApprovalStandsOnCurrentEvidence'
  BY <1>3 DEF ApprovalStandsOnCurrentEvidence
<1>4. ASSUME NEW r \in Reviewers, NEW s \in Sections, NEW p \in ParagraphRefs,
             NEW cited \in SUBSET Claims, DraftSection(r, s, p, cited)
      PROVE  ApprovalStandsOnCurrentEvidence'
  <2> DEFINE row == DraftedSection(p, NextPosition(section), cited)
  <2>1. section' = Put(section, s, row) /\ UNCHANGED <<claim, conflict>>
    BY <1>4 DEF DraftSection
  <2>2. row.approvalCurrent = FALSE
    BY DEF DraftedSection
  <2> HIDE DEF row
  <2>3. /\ DOMAIN section' = DOMAIN section \cup {s}
        /\ \A x \in DOMAIN section' : section'[x] = IF x = s THEN row ELSE section[x]
    BY <2>1 DEF Put
  <2> QED
    BY <2>1, <2>2, <2>3, ReplacedSection
<1>5. ASSUME NEW r \in Reviewers, NEW s \in Sections, NEW p \in ParagraphRefs,
             NEW cited \in SUBSET Claims, ReviseSection(r, s, p, cited)
      PROVE  ApprovalStandsOnCurrentEvidence'
  <2> DEFINE row == Revised(section[s], p, cited)
  <2>1. /\ s \in DOMAIN section
        /\ section' = [section EXCEPT ![s] = row]
        /\ UNCHANGED <<claim, conflict>>
    BY <1>5 DEF ReviseSection
  <2>2. row.approvalCurrent = FALSE
    BY <1>1, <2>1 DEF Revised, SectionRow
  <2> HIDE DEF row
  <2> QED
    BY <2>1, <2>2, ReplacedSection
<1>6. ASSUME NEW r \in Reviewers, NEW s \in Sections, ApproveSection(r, s)
      PROVE  ApprovalStandsOnCurrentEvidence'
  <2> DEFINE row   == ApprovedSection(claim, conflict, section[s])
             cited == section[s].claimIds
             state == EvidenceState(claim, conflict, cited)
  <2>1. /\ s \in DOMAIN section
        /\ ImpactOf(claim, conflict, cited) \in UsableSectionStatuses
        /\ section' = [section EXCEPT ![s] = row]
        /\ UNCHANGED <<claim, conflict>>
    BY <1>6 DEF ApproveSection
  <2>2. /\ row.claimIds = cited
        /\ row.revision = [claimIds |-> cited, approvalState |-> "approved", evidence |-> state]
    BY <1>1, <2>1 DEF ApprovedSection, ApprovedRevision, SectionRow
  <2>3. state # NoEvidence
    <3>1. state.cited = cited /\ cited # {}
      BY <1>7, <2>1 DEF EvidenceState
    <3> HIDE DEF state
    <3> QED
      BY <3>1 DEF NoEvidence
  <2> HIDE DEF row
  <2>4. ApprovalHolds(claim, conflict, row)
    <3>1. /\ row.revision.claimIds = cited
          /\ row.revision.approvalState = "approved"
          /\ row.revision.evidence = state
      BY <2>2
    <3> QED
      BY <2>1, <2>2, <2>3, <3>1 DEF ApprovalHolds, RevisionApprovalIsCurrent
  <2> QED
    BY <2>1, <2>4, ReplacedSection
<1> QED
  BY <1>2, <1>3, <1>4, <1>5, <1>6, StepKinds

\* A current approval was given to the text the section has now, on the evidence
\* the matter has now.
THEOREM ApprovalsCorrect == Spec => []ApprovalStandsOnCurrentEvidence
<1>1. Init => ApprovalStandsOnCurrentEvidence
  BY OpeningAssumption DEF Init, ApprovalStandsOnCurrentEvidence
<1>2. Typed /\ ApprovalStandsOnCurrentEvidence /\ [Next]_vars => ApprovalStandsOnCurrentEvidence'
  BY ApprovalsStep
<1> QED
  BY <1>1, <1>2, TypedInit, TypedStep, PTL DEF Spec

-----------------------------------------------------------------------------
(***************************************************************************)
(* Production packets.                                                     *)
(***************************************************************************)

\* The evidence of a section: its citations, closed under preserved conflicts.
LEMMA EvidenceClosed ==
  ASSUME NEW cl, NEW cf, NEW cited \in SUBSET DOMAIN cl,
         \A k \in DOMAIN cf : ClaimsOf(cf[k]) \subseteq DOMAIN cl
  PROVE  /\ cited \subseteq EvidenceClaims(cl, cf, cited)
         /\ ClosedUnderPreserved(cf, EvidenceClaims(cl, cf, cited))
<1> DEFINE E == EvidenceClaims(cl, cf, cited)
<1>1. \A c : c \in E <=> /\ c \in DOMAIN cl
                         /\ \A S \in SUBSET DOMAIN cl :
                              cited \subseteq S /\ ClosedUnderPreserved(cf, S) => c \in S
  BY DEF EvidenceClaims
<1>2. cited \subseteq E
  BY <1>1
<1>3. ASSUME NEW k \in DOMAIN cf, cf[k].status = "preserved_both", ClaimsOf(cf[k]) \cap E # {}
      PROVE  ClaimsOf(cf[k]) \subseteq E
  <2>1. ASSUME NEW S \in SUBSET DOMAIN cl, cited \subseteq S, ClosedUnderPreserved(cf, S)
        PROVE  ClaimsOf(cf[k]) \subseteq S
    <3>1. ClaimsOf(cf[k]) \cap S # {}
      BY <1>1, <1>3, <2>1
    <3> QED
      BY <1>3, <2>1, <3>1 DEF ClosedUnderPreserved
  <2> QED
    BY <1>1, <2>1
<1> QED
  BY <1>2, <1>3 DEF ClosedUnderPreserved

\* A section is usable only if every claim it relies on is eligible.
LEMMA UsableIsEligible ==
  ASSUME NEW S, SectionImpact(S) \in UsableSectionStatuses,
         NEW row \in S, row.reportEligibility \in Eligibilities
  PROVE  row.reportEligibility = "eligible"
BY DEF SectionImpact, UsableSectionStatuses, Eligibilities

\* A claim is eligible only if no open conflict touches it and its quote is
\* verified, and it is then supported or preserved.
LEMMA EligibleClaim ==
  ASSUME NEW row, NEW cf, NEW c, EligibilityOf(row, cf, c) = "eligible"
  PROVE  /\ row.quoteVerification \notin UnverifiedQuoteStates
         /\ \A k \in RelatedConflicts(cf, c) : cf[k].status \notin OpenConflictStatuses
         /\ row.status \in {"supported", "preserved"}
<1> DEFINE touching == {cf[k].status : k \in RelatedConflicts(cf, c)}
<1>1. ClaimEligibility(row.status, row.privilege, touching, row.quoteVerification) = "eligible"
  BY DEF EligibilityOf
<1>2. \A k \in RelatedConflicts(cf, c) : cf[k].status \in touching
  OBVIOUS
<1> HIDE DEF touching
<1> QED
  BY <1>1, <1>2 DEF ClaimEligibility, OpenConflictStatuses

\* The claims of a preserved conflict are preserved by it.
LEMMA PreservedDispositions ==
  ASSUME NEW cf, DispositionsMatchStatus(cf), NEW k \in DOMAIN cf,
         cf[k].status = "preserved_both", NEW c
  PROVE  Disposition(cf[k], c) = "preserved"
<1>1. PICK d \in DecisionTypes, x \in {"a", "b"} :
        /\ TransitionFor(d, "a").conflict = "preserved_both"
        /\ [a |-> cf[k].claimADisposition, b |-> cf[k].claimBDisposition]
             = [a |-> TransitionFor(d, x).a, b |-> TransitionFor(d, x).b]
  BY DEF DispositionsMatchStatus, DispositionsFor
<1>2. d = "preserve_both"
  BY <1>1 DEF TransitionFor, DecisionTypes
<1>3. TransitionFor(d, x).a = "preserved" /\ TransitionFor(d, x).b = "preserved"
  BY <1>2 DEF TransitionFor
<1>4. cf[k].claimADisposition = "preserved" /\ cf[k].claimBDisposition = "preserved"
  BY <1>1, <1>3
<1> QED
  BY <1>4 DEF Disposition

\* A claim that is supported or preserved, and preserved by one conflict, is
\* preserved.
LEMMA PreservedStatus ==
  ASSUME NEW row, NEW cf, NEW c, NEW k \in RelatedConflicts(cf, c),
         StandingDerived(row, cf, c), row.status \in {"supported", "preserved"},
         Disposition(cf[k], c) = "preserved"
  PROVE  row.status = "preserved"
<1>1. Precedence[row.status] <= Precedence["preserved"]
  BY DEF StandingDerived
<1> QED
  BY <1>1 DEF Precedence

LEMMA Candid ==
  ASSUME Typed, StandingFollowsConflicts, DispositionsMatch, ApprovalStandsOnCurrentEvidence
  PROVE  ProductionIsCandid
<1> SUFFICES ASSUME NEW s \in DOMAIN section,
                    ProductionEntry(claim, conflict, section[s]).disposition = "included"
             PROVE  LET entry    == ProductionEntry(claim, conflict, section[s])
                        rendered == entry.shown \cup entry.withheld
                    IN  /\ section[s].claimIds \subseteq entry.shown
                        /\ rendered \subseteq DOMAIN section[s].revision.evidence.claims
                        /\ \A c \in entry.shown :
                             /\ claim[c].quoteVerification \notin UnverifiedQuoteStates
                             /\ \A k \in RelatedConflicts(conflict, c) :
                                  /\ conflict[k].status \notin OpenConflictStatuses
                                  /\ Disposition(conflict[k], c) \notin {"rejected", "superseded"}
                                  /\ conflict[k].status = "preserved_both" =>
                                       k \in entry.disclosed /\ ClaimsOf(conflict[k]) \subseteq rendered
  BY DEF ProductionIsCandid
<1> DEFINE cited     == section[s].claimIds
           E         == EvidenceClaims(claim, conflict, cited)
           disclosed == Disclosures(claim, conflict, E)
           rendered  == cited \cup UNION {ClaimsOf(conflict[k]) : k \in disclosed}
           entry     == ProductionEntry(claim, conflict, section[s])
<1>1. /\ \A c \in DOMAIN claim : claim[c] \in ClaimRow
      /\ \A k \in DOMAIN conflict : conflict[k] \in ConflictRow
      /\ \A k \in DOMAIN conflict : ClaimsOf(conflict[k]) \subseteq DOMAIN claim
      /\ cited \in SUBSET DOMAIN claim
  BY DEF Typed, TypeOK, RowsTyped
<1>2. /\ entry.disposition = ProductionDisposition(claim, conflict, section[s])
      /\ ProductionDisposition(claim, conflict, section[s]) = "included"
  BY DEF ProductionEntry
<1>3. /\ Approved(claim, conflict, section[s])
      /\ ProductionContent(claim, conflict, section[s]) = cited
  <2>1. Approved(claim, conflict, section[s])
    BY <1>2 DEF ProductionDisposition
  <2>2. section[s].revision.claimIds = cited
    BY <2>1 DEF Approved, ApprovalStandsOnCurrentEvidence, ApprovalsStand
  <2> QED
    BY <2>1, <2>2 DEF ProductionContent
<1>4. /\ \A c \in cited : ~IsWithholding(claim[c])
      /\ ImpactOf(claim, conflict, cited) \in UsableSectionStatuses
  BY <1>2, <1>3 DEF ProductionDisposition
<1>5. /\ entry.disclosed = disclosed
      /\ entry.shown = {c \in rendered : ~IsWithholding(claim[c])}
      /\ entry.withheld = {c \in rendered : IsWithholding(claim[c])}
  BY <1>2, <1>3 DEF ProductionEntry
<1>6. /\ cited \subseteq E
      /\ ClosedUnderPreserved(conflict, E)
  BY <1>1, EvidenceClosed
<1>7. DOMAIN section[s].revision.evidence.claims = E
  <2>1. section[s].revision.evidence = EvidenceState(claim, conflict, cited)
    BY <1>3 DEF Approved, RevisionApprovalIsCurrent, ApprovalStandsOnCurrentEvidence, ApprovalsStand
  <2> QED
    BY <2>1 DEF EvidenceState
<1>8. rendered \subseteq E
  BY <1>6 DEF Disclosures, ClosedUnderPreserved
<1>9. E \subseteq DOMAIN claim
  BY DEF EvidenceClaims
<1>10. ASSUME NEW c \in E, ~IsWithholding(claim[c])
       PROVE  /\ claim[c].reportEligibility = "eligible"
              /\ StandingDerived(claim[c], conflict, c)
  <2> DEFINE S == {claim[d] : d \in {e \in E : e \in cited \/ ~IsWithholding(claim[e])}}
  <2>1. SectionImpact(S) \in UsableSectionStatuses /\ claim[c] \in S
    BY <1>4, <1>10 DEF ImpactOf
  <2>2. claim[c].reportEligibility \in Eligibilities
    BY <1>1, <1>9 DEF ClaimRow
  <2>3. StandingDerived(claim[c], conflict, c)
    BY <1>9 DEF StandingFollowsConflicts, StandingsDerived
  <2> HIDE DEF S
  <2> QED
    BY <2>1, <2>2, <2>3, UsableIsEligible
<1> HIDE DEF E, disclosed, rendered, entry, cited
<1>11. ASSUME NEW c \in entry.shown
       PROVE  /\ c \in E
              /\ claim[c].reportEligibility = "eligible"
              /\ StandingDerived(claim[c], conflict, c)
              /\ claim[c].quoteVerification \notin UnverifiedQuoteStates
              /\ claim[c].status \in {"supported", "preserved"}
              /\ \A k \in RelatedConflicts(conflict, c) :
                   conflict[k].status \notin OpenConflictStatuses
  <2>1. c \in E /\ ~IsWithholding(claim[c])
    BY <1>5, <1>8, <1>11
  <2>2. claim[c].reportEligibility = "eligible" /\ StandingDerived(claim[c], conflict, c)
    BY <1>10, <2>1
  <2>3. EligibilityOf(claim[c], conflict, c) = "eligible"
    BY <2>2 DEF StandingDerived
  <2> QED
    BY <2>1, <2>2, <2>3, EligibleClaim
<1>12. ASSUME NEW c \in entry.shown, NEW k \in RelatedConflicts(conflict, c)
       PROVE  Disposition(conflict[k], c) \notin {"rejected", "superseded"}
  BY <1>1, <1>11, <1>12, LoserIneligible
<1>13. ASSUME NEW c \in entry.shown, NEW k \in RelatedConflicts(conflict, c),
              conflict[k].status = "preserved_both"
       PROVE  k \in disclosed /\ ClaimsOf(conflict[k]) \subseteq rendered
  <2>1. k \in DOMAIN conflict /\ c \in ClaimsOf(conflict[k])
    BY <1>13 DEF RelatedConflicts
  <2>2. Disposition(conflict[k], c) = "preserved"
    BY <1>13, <2>1, PreservedDispositions DEF DispositionsMatch
  <2>3. claim[c].status = "preserved"
    BY <1>11, <1>13, <2>2, PreservedStatus
  <2>4. k \in disclosed
    BY <1>11, <1>13, <2>1, <2>3 DEF disclosed, Disclosures
  <2> QED
    BY <2>4 DEF rendered
<1>14. rendered = entry.shown \cup entry.withheld
  BY <1>5
<1>15. cited \subseteq entry.shown
  BY <1>4, <1>5 DEF rendered
<1> QED
  BY <1>5, <1>7, <1>8, <1>11, <1>12, <1>13, <1>14, <1>15 DEF entry, cited

\* Whatever was flagged, decided, attested, revised and approved, a production
\* packet built now is candid about every section it includes.
THEOREM CandourCorrect == Spec => []ProductionIsCandid
<1>1. Typed /\ StandingFollowsConflicts /\ DispositionsMatch /\ ApprovalStandsOnCurrentEvidence
        => ProductionIsCandid
  BY Candid
<1>2. Spec => []Typed
  BY TypedInit, TypedStep, PTL DEF Spec
<1> QED
  BY <1>1, <1>2, StandingsCorrect, DispositionsCorrect, ApprovalsCorrect, PTL
=============================================================================
