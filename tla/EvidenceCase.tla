---------------------------- MODULE EvidenceCase ----------------------------
(***************************************************************************)
(* What the evidence services of Atlas Argus promise about one matter, as  *)
(* if every request were executed alone and at once.                       *)
(*                                                                         *)
(* Reviewers extract claims from sources, flag pairs of claims as          *)
(* conflicting, decide the conflicts, attest to quotes, draft, revise and  *)
(* approve report sections that cite claims, and generate packets from     *)
(* them.  Every operation is audited, and auditing a change of the         *)
(* evidence withdraws every approval in the matter.  EvidenceTransactions  *)
(* shows that the transactions the code runs, with their locks, implement  *)
(* this specification.                                                     *)
(***************************************************************************)
EXTENDS MatterEvidence

CONSTANTS
  Reviewers,      \* the active members of the matter
  Role,           \* the matter role of each of them
  Claims,         \* claim identifiers
  Conflicts,      \* conflict identifiers
  Sections,       \* report section identifiers
  ParagraphRefs,  \* paragraph references
  Sources,        \* source documents
  Privilege,      \* the privilege status each source is uploaded under
  PacketKeys,     \* idempotency keys of packet requests
  NoKey,          \* a packet request without one
  Opening,        \* the matter as earlier work left it
  SeverityChoices,\* the severities reviewers flag conflicts with
  QuoteChoices,   \* the outcomes the page texts give to quotes
  MaxPackets,     \* bound on the number of packets
  MaxEvents       \* bound on the length of the audit chain

VARIABLES
  sources,   \* the ingested sources
  claim,     \* the claims
  conflict,  \* the conflicts
  section,   \* the report sections
  packets,   \* the packet artifacts, oldest first
  events     \* the length of the audit chain

vars == <<sources, claim, conflict, section, packets, events>>

-----------------------------------------------------------------------------
(***************************************************************************)
(* What is right in one matter.  These are stated of rows given as         *)
(* arguments, so that they can be said of the opening matter too.          *)
(***************************************************************************)

PacketTypes == {"internal", "production"}

\* What is known of a quote when its claim is extracted.
QuoteOutcomes == {"verified_exact", "manual_verification_required", "legacy_unverified"}

ClaimRow ==
  [status            : ClaimStatuses,
   privilege         : PrivilegeStatuses,
   reportEligibility : Eligibilities,
   quoteVerification : QuoteVerifications,
   author            : Reviewers \cup {NoReviewer},
   attestedBy        : Reviewers \cup {NoReviewer}]

ConflictRow ==
  [claimA            : Claims,
   claimB            : Claims,
   severity          : Severities,
   status            : ConflictStatuses,
   claimADisposition : ClaimStatuses,
   claimBDisposition : ClaimStatuses,
   version           : Nat]

IsEvidenceState(e) ==
  /\ e.cited \subseteq Claims
  /\ DOMAIN e.claims \subseteq Claims
  /\ DOMAIN e.conflicts \subseteq Conflicts

\* The rows of a section whose active revision carries digest e.
SectionRow(e) ==
  [paragraphRef    : ParagraphRefs,
   position        : Nat,
   claimIds        : SUBSET Claims,
   version         : Nat,
   approvalCurrent : BOOLEAN,
   revision        : [claimIds      : SUBSET Claims,
                      approvalState : {"draft", "approved"},
                      evidence      : {e}]]

\* Rows have their columns' types, and conflicts and sections refer to claims
\* that exist.
RowsTyped(cl, cf, sec) ==
  /\ DOMAIN cl \subseteq Claims
  /\ \A c \in DOMAIN cl : cl[c] \in ClaimRow
  /\ DOMAIN cf \subseteq Conflicts
  /\ \A k \in DOMAIN cf :
       /\ cf[k] \in ConflictRow
       /\ cf[k].claimA # cf[k].claimB
       /\ ClaimsOf(cf[k]) \subseteq DOMAIN cl
  /\ DOMAIN sec \subseteq Sections
  /\ \A s \in DOMAIN sec :
       /\ sec[s] \in SectionRow(sec[s].revision.evidence)
       /\ sec[s].claimIds \in (SUBSET DOMAIN cl) \ {{}}
       /\ IsEvidenceState(sec[s].revision.evidence)

\* The row of claim c has the most decisive of the claim's standings, and the
\* eligibility the rules give it.
StandingDerived(row, cf, c) ==
  LET standings == {Disposition(cf[k], c) : k \in RelatedConflicts(cf, c)}
  IN  /\ IF standings = {}
         THEN row.status = "unreviewed"
         ELSE /\ row.status \in standings
              /\ \A d \in standings : Precedence[row.status] <= Precedence[d]
      /\ row.reportEligibility = EligibilityOf(row, cf, c)

StandingsDerived(cl, cf) == \A c \in DOMAIN cl : StandingDerived(cl[c], cf, c)

OpenPairsDistinct(cf) ==
  \A j, k \in DOMAIN cf :
    /\ {cf[j].status, cf[k].status} \subseteq OpenConflictStatuses
    /\ SamePair(cf[j], cf[k])
    => j = k

\* The dispositions of a conflict's claims are those its status comes with.
DispositionsMatchStatus(cf) ==
  \A k \in DOMAIN cf :
    [a |-> cf[k].claimADisposition, b |-> cf[k].claimBDisposition]
      \in DispositionsFor(cf[k].status)

ApprovalsStand(cl, cf, sec) ==
  \A s \in DOMAIN sec :
    sec[s].approvalCurrent =>
      /\ sec[s].revision.claimIds = sec[s].claimIds
      /\ RevisionApprovalIsCurrent(cl, cf, sec[s].revision)
      /\ ImpactOf(cl, cf, sec[s].claimIds) \in UsableSectionStatuses

AttestationsIndependent(cl) ==
  \A c \in DOMAIN cl :
    cl[c].quoteVerification = "manually_verified" =>
      /\ cl[c].attestedBy \in Reviewers \ {cl[c].author}
      /\ HasPrivilegeClearance(Role[cl[c].attestedBy])

ParagraphsDistinct(sec) ==
  \A s, t \in DOMAIN sec :
    \/ sec[s].paragraphRef = sec[t].paragraphRef
    \/ sec[s].position = sec[t].position
    => s = t

\* The report has a last section, unless it is empty.
HasLastSection(sec) ==
  DOMAIN sec # {} =>
    \E s \in DOMAIN sec : \A t \in DOMAIN sec : sec[t].position <= sec[s].position

ASSUME ConstantsAssumption ==
  /\ Role \in [Reviewers -> ReviewerRoles]
  /\ NoReviewer \notin Reviewers
  /\ Privilege \in [Sources -> PrivilegeStatuses]
  /\ NoKey \notin PacketKeys
  /\ SeverityChoices \subseteq Severities
  /\ QuoteChoices \subseteq QuoteOutcomes
  /\ MaxPackets \in Nat
  /\ MaxEvents \in Nat

\* Earlier work left a matter in order.
ASSUME OpeningAssumption ==
  /\ Opening.sources \subseteq Sources
  /\ RowsTyped(Opening.claim, Opening.conflict, Opening.section)
  /\ DispositionsMatchStatus(Opening.conflict)
  /\ StandingsDerived(Opening.claim, Opening.conflict)
  /\ OpenPairsDistinct(Opening.conflict)
  /\ ApprovalsStand(Opening.claim, Opening.conflict, Opening.section)
  /\ AttestationsIndependent(Opening.claim)
  /\ ParagraphsDistinct(Opening.section)
  /\ HasLastSection(Opening.section)

-----------------------------------------------------------------------------
(***************************************************************************)
(* Auditing.                                                               *)
(***************************************************************************)

\* Append n audit events.
Audit(n) ==
  /\ events + n <= MaxEvents
  /\ events' = events + n

\* The events about a claim, a conflict or a source withdraw every approval of
\* the matter.
WithdrawApprovals == section' = ResetApprovals(section, DOMAIN section)

-----------------------------------------------------------------------------
(***************************************************************************)
(* Sources and claims.                                                     *)
(***************************************************************************)

\* A source document is ingested.  Withheld material is uploaded only by a
\* reviewer cleared to see it.
IngestSource(r, d) ==
  /\ d \notin sources
  /\ VisibleTo(Role[r], Privilege[d])
  /\ sources' = sources \cup {d}
  /\ WithdrawApprovals
  /\ Audit(1)
  /\ UNCHANGED <<claim, conflict, packets>>

\* What is known of the quote is decided by the page text; a quote that page
\* text disproves is rejected and leaves no claim.
CreateClaim(r, c, d, quote) ==
  /\ c \notin DOMAIN claim
  /\ d \in sources
  /\ VisibleTo(Role[r], Privilege[d])
  /\ claim' = Put(claim, c, ExtractedClaim(r, Privilege[d], quote))
  /\ WithdrawApprovals
  /\ Audit(1)
  /\ UNCHANGED <<sources, conflict, packets>>

\* MUTANT: a reviewer attests to the quote of a claim of their own.
VerifyAnyQuote(r, c) ==
  /\ HasPrivilegeClearance(Role[r])
  /\ c \in DOMAIN claim
  /\ claim[c].quoteVerification = "manual_verification_required"
  /\ claim' = [claim EXCEPT ![c] = Attested(claim[c], r, conflict, c)]
  /\ WithdrawApprovals
  /\ Audit(1)
  /\ UNCHANGED <<sources, conflict, packets>>

\* A senior member who did not extract the claim attests to its quote against
\* the original document.
VerifyQuote(r, c) ==
  /\ HasPrivilegeClearance(Role[r])
  /\ c \in DOMAIN claim
  /\ claim[c].quoteVerification = "manual_verification_required"
  /\ claim[c].author # r
  /\ claim' = [claim EXCEPT ![c] = Attested(claim[c], r, conflict, c)]
  /\ WithdrawApprovals
  /\ Audit(1)
  /\ UNCHANGED <<sources, conflict, packets>>

-----------------------------------------------------------------------------
(***************************************************************************)
(* Conflicts and decisions.                                                *)
(***************************************************************************)

FlagConflict(r, k, a, b, severity) ==
  /\ k \notin DOMAIN conflict
  /\ a # b
  /\ {a, b} \subseteq DOMAIN claim
  /\ \A c \in {a, b} : VisibleTo(Role[r], claim[c].privilege)
  /\ ~OtherOpenConflict(conflict, a, b, k)
  /\ conflict' = Put(conflict, k, FlaggedConflict(a, b, severity))
  /\ claim' = RecomputeClaims(claim, conflict', {a, b})
  /\ WithdrawApprovals
  /\ Audit(3)
  /\ UNCHANGED <<sources, packets>>

\* A decision on conflict k, which may be one decided before.  Reopening a
\* conflict while its pair carries another open one fails on the unique index.
Decide(r, k, decision, selected) ==
  /\ k \in DOMAIN conflict
  /\ LET row == Decided(conflict[k], decision, selected)
         a   == row.claimA
         b   == row.claimB
     IN  /\ DecisionPermitted(decision, Role[r], row.severity)
         /\ \A c \in {a, b} : VisibleTo(Role[r], claim[c].privilege)
         /\ row.status \in OpenConflictStatuses => ~OtherOpenConflict(conflict, a, b, k)
         /\ conflict' = [conflict EXCEPT ![k] = row]
         /\ claim' = DecidedClaims(claim, conflict', k)
         /\ Audit(1 + Cardinality({c \in {a, b} : StandingChanged(claim[c], claim'[c])}))
  /\ WithdrawApprovals
  /\ UNCHANGED <<sources, packets>>

-----------------------------------------------------------------------------
(***************************************************************************)
(* Report sections.                                                        *)
(***************************************************************************)

\* MUTANT: a citation of a claim that does not exist is not noticed.
CitableIfFound(r, cited) ==
  /\ cited # {}
  /\ \A c \in cited \cap DOMAIN claim : VisibleTo(Role[r], claim[c].privilege)

\* A citation must be of an existing claim the reviewer is cleared to see.
Citable(r, cited) ==
  /\ cited # {}
  /\ \A c \in cited : c \in DOMAIN claim /\ VisibleTo(Role[r], claim[c].privilege)

DraftSection(r, s, ref, cited) ==
  /\ s \notin DOMAIN section
  /\ ParagraphRefFree(section, ref, s)
  /\ Citable(r, cited)
  /\ section' = Put(section, s, DraftedSection(ref, NextPosition(section), cited))
  /\ Audit(1)
  /\ UNCHANGED <<sources, claim, conflict, packets>>

ReviseSection(r, s, ref, cited) ==
  /\ s \in DOMAIN section
  /\ ParagraphRefFree(section, ref, s)
  /\ Citable(r, cited)
  /\ section' = [section EXCEPT ![s] = Revised(@, ref, cited)]
  /\ Audit(1)
  /\ UNCHANGED <<sources, claim, conflict, packets>>

ApproveSection(r, s) ==
  /\ PacketPermitted(Role[r])
  /\ s \in DOMAIN section
  /\ ImpactOf(claim, conflict, section[s].claimIds) \in UsableSectionStatuses
  /\ section' = [section EXCEPT ![s] = ApprovedSection(claim, conflict, @)]
  /\ Audit(1)
  /\ UNCHANGED <<sources, claim, conflict, packets>>

-----------------------------------------------------------------------------
(***************************************************************************)
(* Packets.                                                                *)
(***************************************************************************)

\* A packet is built from the rows and the audit root of one moment and is
\* recorded at that moment.  A key used before is answered from the stored
\* artifact and changes nothing.
GeneratePacket(r, type, key) ==
  /\ PacketPermitted(Role[r])
  /\ key \notin UsedKeys(packets, NoKey)
  /\ Len(packets) < MaxPackets
  /\ packets' = Append(packets,
       [type |-> type, key |-> key, root |-> events,
        entries |-> BuildPacket(claim, conflict, section, type)])
  /\ Audit(1)
  /\ UNCHANGED <<sources, claim, conflict, section>>

-----------------------------------------------------------------------------
Init ==
  /\ sources  = Opening.sources
  /\ claim    = Opening.claim
  /\ conflict = Opening.conflict
  /\ section  = Opening.section
  /\ packets  = <<>>
  /\ events   = 0

Next ==
  \E r \in Reviewers :
    \/ \E d \in Sources : IngestSource(r, d)
    \/ \E c \in Claims, d \in Sources, q \in QuoteChoices : CreateClaim(r, c, d, q)
    \/ \E c \in Claims : VerifyQuote(r, c)
    \/ \E k \in Conflicts, a, b \in Claims, v \in SeverityChoices : FlagConflict(r, k, a, b, v)
    \/ \E k \in Conflicts, t \in DecisionTypes, x \in {"a", "b"} : Decide(r, k, t, x)
    \/ \E s \in Sections, p \in ParagraphRefs, cited \in SUBSET Claims :
         \/ DraftSection(r, s, p, cited)
         \/ ReviseSection(r, s, p, cited)
    \/ \E s \in Sections : ApproveSection(r, s)
    \/ \E type \in PacketTypes, key \in PacketKeys \cup {NoKey} : GeneratePacket(r, type, key)

Spec == Init /\ [][Next]_vars

-----------------------------------------------------------------------------
(***************************************************************************)
(* Properties.                                                             *)
(***************************************************************************)

IsPacket(p) ==
  /\ p.type \in PacketTypes
  /\ p.key \in PacketKeys \cup {NoKey}
  /\ p.root \in 0 .. events - 1
  /\ DOMAIN p.entries \subseteq DOMAIN section

PacketsTyped ==
  /\ packets \in Seq({packets[i] : i \in DOMAIN packets})
  /\ \A i \in DOMAIN packets : IsPacket(packets[i])

\* Rows have their columns' types, conflicts and sections refer to claims that
\* exist, and packets to sections that exist and to an earlier audit event.
TypeOK ==
  /\ sources \subseteq Sources
  /\ RowsTyped(claim, conflict, section)
  /\ events \in 0 .. MaxEvents
  /\ PacketsTyped

\* A claim's status and eligibility are at all times what every conflict it is
\* in, taken together, makes of it (_recompute_claim_status): no decision leaves
\* a claim with the verdict of one conflict alone.
StandingFollowsConflicts == StandingsDerived(claim, conflict)

\* A pair of claims carries at most one open conflict, in either order and also
\* after a decided conflict is reopened (uq_open_conflict_claim_pair).
OneOpenConflictPerPair == OpenPairsDistinct(conflict)

\* While a section's approval is current, its active revision is the approved
\* one, it is the text the section has now, and the evidence it was approved on
\* is the evidence of the matter now: no decision, attestation, flag or upload
\* slips in behind an approval (_append_audit, approve_section_op).
ApprovalStandsOnCurrentEvidence == ApprovalsStand(claim, conflict, section)

\* A paragraph reference names one section and no two sections share a position
\* in the report (save_section_op).
ParagraphsAreDistinct == ParagraphsDistinct(section)

\* A quote that carries a human attestation was attested by a cleared reviewer
\* other than the one who extracted the claim (manually_verify_claim_quote_op).
AttestedBySecondReviewer == AttestationsIndependent(claim)

\* Whatever the sections and conflicts are, a production packet built now is
\* candid about every section it includes: it shows every citation; no claim it
\* shows is in an open conflict, lost a conflict or waits for its quote to be
\* attested; every preserved conflict of such a claim is disclosed with both its
\* claims, one of them perhaps as a notice of withholding; and nothing it shows
\* or withholds is outside the evidence the approval was given on (build_packet).
ProductionIsCandid ==
  \A s \in DOMAIN section :
    LET entry    == ProductionEntry(claim, conflict, section[s])
        rendered == entry.shown \cup entry.withheld
    IN  entry.disposition = "included" =>
          /\ section[s].claimIds \subseteq entry.shown
          /\ rendered \subseteq DOMAIN section[s].revision.evidence.claims
          /\ \A c \in entry.shown :
               /\ claim[c].quoteVerification \notin UnverifiedQuoteStates
               /\ \A k \in RelatedConflicts(conflict, c) :
                    /\ conflict[k].status \notin OpenConflictStatuses
                    /\ Disposition(conflict[k], c) \notin {"rejected", "superseded"}
                    /\ conflict[k].status = "preserved_both" =>
                         k \in entry.disclosed /\ ClaimsOf(conflict[k]) \subseteq rendered

\* A claim that lost a conflict stays out of every report until that very
\* conflict is decided again, whatever happens to the other conflicts, quotes
\* and sources around it (aggregate_claim_status).
LosersStayOut ==
  [][\A k \in DOMAIN conflict :
       conflict'[k].version = conflict[k].version =>
         \A c \in ClaimsOf(conflict[k]) :
           Disposition(conflict[k], c) \in {"rejected", "superseded"} =>
             claim'[c].reportEligibility \in {"excluded", "privileged"}]_vars

\* A key names one packet: a repeated request never adds a second artifact
\* under the key of the first (uq_packet_artifact_idempotency).
OnePacketPerKey ==
  \A i, j \in DOMAIN packets :
    packets[i].key = packets[j].key /\ packets[i].key # NoKey => i = j
=============================================================================
