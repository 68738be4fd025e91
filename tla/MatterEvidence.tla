--------------------------- MODULE MatterEvidence ---------------------------
(***************************************************************************)
(* What Atlas Argus computes from the rows of one matter.  A matter is     *)
(* three partial functions:                                                *)
(*   claim     claim id    -> [status, privilege, reportEligibility,       *)
(*                             quoteVerification, author, attestedBy]      *)
(*   conflict  conflict id -> [claimA, claimB, severity, status,           *)
(*                             claimADisposition, claimBDisposition,       *)
(*                             version]                                    *)
(*   section   section id  -> [paragraphRef, position, claimIds, version,  *)
(*                             approvalCurrent, revision]                  *)
(* Every operator takes the functions it reads as arguments, so that it    *)
(* can be applied to the committed rows and to the rows one transaction    *)
(* sees.                                                                   *)
(***************************************************************************)
EXTENDS ReviewRules, Sequences, FiniteSetsExt

CONSTANT NoReviewer   \* the attester of a claim nobody attested to

\* f with key k bound to v, whether or not k was bound.
Put(f, k, v) == [x \in DOMAIN f \cup {k} |-> IF x = k THEN v ELSE f[x]]

\* f as seen through the changes g.
Overlay(f, g) == [x \in DOMAIN f \cup DOMAIN g |-> IF x \in DOMAIN g THEN g[x] ELSE f[x]]

-----------------------------------------------------------------------------
(***************************************************************************)
(* A claim's standing.                                                     *)
(***************************************************************************)

ClaimsOf(row) == {row.claimA, row.claimB}

RelatedConflicts(conflict, c) == {k \in DOMAIN conflict : c \in ClaimsOf(conflict[k])}

\* The standing of claim c in one conflict it belongs to.
Disposition(row, c) ==
  IF c = row.claimA THEN row.claimADisposition ELSE row.claimBDisposition

EligibilityOf(row, conflict, c) ==
  ClaimEligibility(row.status, row.privilege,
                   {conflict[k].status : k \in RelatedConflicts(conflict, c)},
                   row.quoteVerification)

\* The row of claim c with status and eligibility derived anew from every
\* conflict the claim is in.
Recompute(row, conflict, c) ==
  LET status == AggregateStatus({Disposition(conflict[k], c) :
                                   k \in RelatedConflicts(conflict, c)})
  IN  [row EXCEPT !.status = status,
                  !.reportEligibility =
                    EligibilityOf([row EXCEPT !.status = status], conflict, c)]

\* A claim as it is extracted, its privilege inherited from its source.
ExtractedClaim(r, privilege, quote) ==
  [status            |-> "unreviewed",
   privilege         |-> privilege,
   reportEligibility |-> ClaimEligibility("unreviewed", privilege, {}, quote),
   quoteVerification |-> quote,
   author            |-> r,
   attestedBy        |-> NoReviewer]

\* A claim whose quote reviewer r attested to.
Attested(row, r, conflicts, c) ==
  LET verified == [row EXCEPT !.quoteVerification = "manually_verified",
                              !.attestedBy        = r]
  IN  [verified EXCEPT !.reportEligibility = EligibilityOf(verified, conflicts, c)]

\* A conflict as it is flagged: both claims are disputed.
FlaggedConflict(a, b, severity) ==
  [claimA |-> a, claimB |-> b, severity |-> severity, status |-> "unresolved",
   claimADisposition |-> "disputed", claimBDisposition |-> "disputed",
   version |-> 1]

\* The conflict row after a decision.
Decided(row, decision, selected) ==
  LET t == TransitionFor(decision, selected)
  IN  [row EXCEPT !.status            = t.conflict,
                  !.claimADisposition = t.a,
                  !.claimBDisposition = t.b,
                  !.version           = @ + 1]

\* The claims after those in S have been derived anew from the given conflicts.
RecomputeClaims(claims, conflicts, S) ==
  [c \in DOMAIN claims |->
     IF c \in S THEN Recompute(claims[c], conflicts, c) ELSE claims[c]]

\* MUTANT: a decision writes its own verdict on both claims, whatever the other
\* conflicts they are in.
DecidedClaimsFromVerdict(claims, conflicts, k) ==
  [c \in DOMAIN claims |->
     IF c \in ClaimsOf(conflicts[k])
     THEN LET row == [claims[c] EXCEPT !.status = Disposition(conflicts[k], c)]
          IN  [row EXCEPT !.reportEligibility = EligibilityOf(row, conflicts, c)]
     ELSE claims[c]]

\* The claims after conflict k was decided.
DecidedClaims(claims, conflicts, k) ==
  RecomputeClaims(claims, conflicts, ClaimsOf(conflicts[k]))

\* A claim gets its own audit event only when its standing really changed.
StandingChanged(row1, row2) ==
  \/ row1.status # row2.status
  \/ row1.reportEligibility # row2.reportEligibility

SamePair(row1, row2) == ClaimsOf(row1) = ClaimsOf(row2)

\* MUTANT: the pair is looked up in the order it was flagged in.
OtherOpenOrderedConflict(conflict, a, b, k) ==
  \E j \in DOMAIN conflict \ {k} :
    /\ conflict[j].status \in OpenConflictStatuses
    /\ <<conflict[j].claimA, conflict[j].claimB>> = <<a, b>>

\* Whether the pair of claims a and b already carries an open conflict other
\* than k.
OtherOpenConflict(conflict, a, b, k) ==
  \E j \in DOMAIN conflict \ {k} :
    /\ conflict[j].status \in OpenConflictStatuses
    /\ ClaimsOf(conflict[j]) = {a, b}

-----------------------------------------------------------------------------
(***************************************************************************)
(* The evidence behind a section.                                          *)
(***************************************************************************)

\* S contains both claims of every preserved conflict it touches.
ClosedUnderPreserved(conflict, S) ==
  \A k \in DOMAIN conflict :
    /\ conflict[k].status = "preserved_both"
    /\ ClaimsOf(conflict[k]) \cap S # {}
    => ClaimsOf(conflict[k]) \subseteq S

\* MUTANT: only the counterparts of the cited claims, not theirs in turn.
DirectCounterparts(claim, conflict, cited) ==
  cited \cup UNION {ClaimsOf(conflict[k]) :
                      k \in {j \in DOMAIN conflict :
                               /\ conflict[j].status = "preserved_both"
                               /\ ClaimsOf(conflict[j]) \cap cited # {}}}

\* The cited claims and every claim their preserved conflicts disclose: the
\* least set that holds the citations and is closed under preserved conflicts.
EvidenceClaims(claim, conflict, cited) ==
  LET closed == {S \in SUBSET DOMAIN claim :
                   cited \subseteq S /\ ClosedUnderPreserved(conflict, S)}
  IN  {c \in DOMAIN claim : \A S \in closed : c \in S}

IsWithholding(row) == row.privilege \in WithholdingPrivilege

\* Usability of a section that cites the given claims.  A privileged claim that
\* is only disclosed, not cited, is rendered as an opaque notice and does not
\* make the section privileged.
ImpactOf(claim, conflict, cited) ==
  SectionImpact({claim[c] :
    c \in {d \in EvidenceClaims(claim, conflict, cited) :
             d \in cited \/ ~IsWithholding(claim[d])}})

\* What the digest of a claim binds.
EvidenceOf(row) ==
  [status            |-> row.status,
   privilege         |-> row.privilege,
   reportEligibility |-> row.reportEligibility,
   quoteVerification |-> row.quoteVerification]

\* Everything an approval of these citations relies on.  The code hashes this
\* value; the hash is modelled as the value itself.
EvidenceState(claim, conflict, cited) ==
  LET evidence == EvidenceClaims(claim, conflict, cited)
      touching == UNION {RelatedConflicts(conflict, c) : c \in evidence}
  IN  [cited     |-> cited,
       claims    |-> [c \in evidence |-> EvidenceOf(claim[c])],
       conflicts |-> [k \in touching |-> conflict[k]]]

-----------------------------------------------------------------------------
(***************************************************************************)
(* Sections and their active revision.                                     *)
(***************************************************************************)

\* No digest: the revision is not an approval.
NoEvidence == [cited |-> {}, claims |-> <<>>, conflicts |-> <<>>]

DraftRevision(cited) ==
  [claimIds |-> cited, approvalState |-> "draft", evidence |-> NoEvidence]

ApprovedRevision(claim, conflict, cited) ==
  [claimIds |-> cited, approvalState |-> "approved",
   evidence |-> EvidenceState(claim, conflict, cited)]

\* Withdraw the approval of the sections in S.
ResetApprovals(section, S) ==
  [s \in DOMAIN section |->
     IF s \in S THEN [section[s] EXCEPT !.approvalCurrent = FALSE]
                ELSE section[s]]

\* MUTANT: the position of the last section, not the one after it.
LastPosition(section) == Max({-1} \cup {section[s].position : s \in DOMAIN section})

NextPosition(section) == 1 + Max({-1} \cup {section[s].position : s \in DOMAIN section})

ParagraphRefFree(section, ref, editing) ==
  \A s \in DOMAIN section \ {editing} : section[s].paragraphRef # ref

DraftedSection(ref, position, cited) ==
  [paragraphRef |-> ref, position |-> position, claimIds |-> cited, version |-> 1,
   approvalCurrent |-> FALSE, revision |-> DraftRevision(cited)]

\* MUTANT: a revision that keeps the approval of the text it replaces.
RevisedKeepingApproval(row, ref, cited) ==
  [row EXCEPT !.paragraphRef = ref, !.claimIds = cited, !.version = @ + 1,
              !.revision = DraftRevision(cited)]

Revised(row, ref, cited) ==
  [row EXCEPT !.paragraphRef = ref, !.claimIds = cited, !.version = @ + 1,
              !.approvalCurrent = FALSE, !.revision = DraftRevision(cited)]

ApprovedSection(claim, conflict, row) ==
  [row EXCEPT !.version         = @ + 1,
              !.approvalCurrent = TRUE,
              !.revision        = ApprovedRevision(claim, conflict, row.claimIds)]

RevisionApprovalIsCurrent(claim, conflict, revision) ==
  /\ revision.approvalState = "approved"
  /\ revision.evidence # NoEvidence
  /\ revision.evidence = EvidenceState(claim, conflict, revision.claimIds)

\* Whether a production packet renders the section's active revision.
Approved(claim, conflict, row) ==
  /\ row.approvalCurrent
  /\ RevisionApprovalIsCurrent(claim, conflict, row.revision)

-----------------------------------------------------------------------------
(***************************************************************************)
(* Evidence packets.                                                       *)
(***************************************************************************)

\* A production packet renders an approved section from its revision, and looks
\* at any other section's own row only to say why it is left out.
ProductionContent(claim, conflict, row) ==
  IF Approved(claim, conflict, row) THEN row.revision.claimIds ELSE row.claimIds

ProductionDisposition(claim, conflict, row) ==
  LET cited  == ProductionContent(claim, conflict, row)
      impact == ImpactOf(claim, conflict, cited)
  IN  IF \E c \in cited : IsWithholding(claim[c]) THEN "withheld"
      ELSE IF ~Approved(claim, conflict, row)     THEN "excluded"
      ELSE IF impact \in UsableSectionStatuses    THEN "included"
      ELSE IF impact = "privileged_material"      THEN "withheld"
      ELSE "excluded"

\* The preserved conflicts disclosed beside an included section: those of the
\* claims in `from' whose global status is preserved.
Disclosures(claim, conflict, from) ==
  {k \in DOMAIN conflict :
     /\ conflict[k].status = "preserved_both"
     /\ \E c \in ClaimsOf(conflict[k]) \cap from : claim[c].status = "preserved"}

\* One section's entry: what happens to it, the claims whose text the packet
\* shows for it, and the claims it replaces by an opaque notice.
ProductionEntry(claim, conflict, row) ==
  LET cited     == ProductionContent(claim, conflict, row)
      included  == ProductionDisposition(claim, conflict, row) = "included"
      disclosed == IF included
                   THEN Disclosures(claim, conflict, EvidenceClaims(claim, conflict, cited))
                   ELSE {}
      rendered  == IF included
                   THEN cited \cup UNION {ClaimsOf(conflict[k]) : k \in disclosed}
                   ELSE {}
      private   == IF ProductionDisposition(claim, conflict, row) = "withheld"
                   THEN cited ELSE rendered
  IN  [disposition |-> ProductionDisposition(claim, conflict, row),
       claimIds    |-> IF included THEN cited ELSE {},
       disclosed   |-> disclosed,
       shown       |-> {c \in rendered : ~IsWithholding(claim[c])},
       withheld    |-> {c \in private : IsWithholding(claim[c])}]

\* Internal work product includes every section in full.
InternalEntry(claim, conflict, row) ==
  LET disclosed == Disclosures(claim, conflict, row.claimIds)
  IN  [disposition |-> "included",
       claimIds    |-> row.claimIds,
       disclosed   |-> disclosed,
       shown       |-> row.claimIds \cup UNION {ClaimsOf(conflict[k]) : k \in disclosed},
       withheld    |-> {}]

BuildPacket(claim, conflict, section, type) ==
  [s \in DOMAIN section |->
     IF type = "production"
     THEN ProductionEntry(claim, conflict, section[s])
     ELSE InternalEntry(claim, conflict, section[s])]

\* MUTANT: only production packets are looked up by their key.
ProductionKeys(artifacts, NoKey) ==
  {artifacts[i].key : i \in {j \in DOMAIN artifacts : artifacts[j].type = "production"}} \ {NoKey}

\* The idempotency keys of the artifacts that have one.
UsedKeys(artifacts, NoKey) == {artifacts[i].key : i \in DOMAIN artifacts} \ {NoKey}
=============================================================================
