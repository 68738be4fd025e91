---------------------------- MODULE ReviewRules ----------------------------
(***************************************************************************)
(* The evidence doctrine of Atlas Argus as pure operators: what a review   *)
(* decision does to a conflict and its two claims, how a claim's standing  *)
(* is derived from every conflict it sits in, when a claim may reach a     *)
(* report, whether a report section is usable, and which matter role may   *)
(* do what.  The modules that have state are built from these operators.   *)
(***************************************************************************)
EXTENDS Integers, FiniteSets

ClaimStatuses ==
  {"unreviewed", "supported", "disputed", "superseded", "rejected",
   "preserved", "escalated"}

ConflictStatuses ==
  {"unresolved", "accepted_claim_a", "accepted_claim_b", "preserved_both",
   "escalated", "source_unreliable", "closed"}

\* A pair of claims carries at most one conflict in one of these statuses.
OpenConflictStatuses == {"unresolved", "escalated"}

Eligibilities ==
  {"eligible", "blocked_by_conflict", "privileged", "needs_review", "excluded"}

PrivilegeStatuses ==
  {"public", "confidential", "attorney_client", "work_product", "restricted"}

WithholdingPrivilege == {"attorney_client", "work_product", "restricted"}

QuoteVerifications ==
  {"verified_exact", "manual_verification_required", "manually_verified",
   "legacy_unverified"}

UnverifiedQuoteStates == {"manual_verification_required"}

Severities == {"critical", "high", "medium", "low"}

DecisionTypes ==
  {"accept_claim_a", "accept_claim_b", "preserve_both", "mark_unresolved",
   "escalate", "mark_source_unreliable"}

SectionStatuses ==
  {"eligible", "eligible_with_disclosure", "blocked", "privileged_material",
   "needs_review"}

UsableSectionStatuses == {"eligible", "eligible_with_disclosure"}

SeniorCounsel == "Senior Aviation Counsel"

ReviewerRoles ==
  {SeniorCounsel, "Accident Reconstruction Expert", "Claims Reviewer",
   "Safety Investigator"}

-----------------------------------------------------------------------------
(***************************************************************************)
(* Decisions.                                                              *)
(***************************************************************************)

\* How decisive a standing is, most decisive first.
Precedence ==
  [rejected |-> 0, superseded |-> 1, disputed |-> 2, escalated |-> 3,
   preserved |-> 4, supported |-> 5, unreviewed |-> 6]

\* A claim's global status from the set of its standings, one per conflict.
AggregateStatus(dispositions) ==
  IF dispositions = {}
  THEN "unreviewed"
  ELSE CHOOSE d \in dispositions :
         \A e \in dispositions : Precedence[d] <= Precedence[e]

\* What a decision makes of the conflict and of its claims A and B.  `selected'
\* says which claim a source-reliability decision discredits.
TransitionFor(decision, selected) ==
  CASE decision = "accept_claim_a" ->
         [conflict |-> "accepted_claim_a", a |-> "supported", b |-> "superseded"]
    [] decision = "accept_claim_b" ->
         [conflict |-> "accepted_claim_b", a |-> "superseded", b |-> "supported"]
    [] decision = "preserve_both" ->
         [conflict |-> "preserved_both", a |-> "preserved", b |-> "preserved"]
    [] decision = "mark_unresolved" ->
         [conflict |-> "unresolved", a |-> "disputed", b |-> "disputed"]
    [] decision = "escalate" ->
         [conflict |-> "escalated", a |-> "escalated", b |-> "escalated"]
    [] OTHER ->
         [conflict |-> "source_unreliable",
          a |-> IF selected = "a" THEN "rejected" ELSE "unreviewed",
          b |-> IF selected = "a" THEN "unreviewed" ELSE "rejected"]

\* The standings claims A and B can have under a conflict of some status.
DispositionsFor(status) ==
  {[a |-> TransitionFor(d, x).a, b |-> TransitionFor(d, x).b] :
     d \in {e \in DecisionTypes : TransitionFor(e, "a").conflict = status},
     x \in {"a", "b"}}

-----------------------------------------------------------------------------
(***************************************************************************)
(* Eligibility of claims and usability of sections.                        *)
(***************************************************************************)

\* The order of the rules is the doctrine: the first that applies decides.
ClaimEligibility(status, privilege, conflictStatuses, quote) ==
  IF privilege \in WithholdingPrivilege        THEN "privileged"
  ELSE IF status \in {"rejected", "superseded"} THEN "excluded"
  ELSE IF quote \in UnverifiedQuoteStates       THEN "needs_review"
  ELSE IF "unresolved" \in conflictStatuses     THEN "blocked_by_conflict"
  ELSE IF "escalated" \in conflictStatuses      THEN "needs_review"
  ELSE IF status \in {"supported", "preserved"} THEN "eligible"
  ELSE "needs_review"

\* Usability of a section from the claims it relies on, each with a status
\* and a reportEligibility.
SectionImpact(cited) ==
  LET Some(set) == \E c \in cited : c.reportEligibility \in set
  IN  IF Some({"blocked_by_conflict"})               THEN "blocked"
      ELSE IF Some({"privileged"})                   THEN "privileged_material"
      ELSE IF Some({"needs_review", "excluded"})     THEN "needs_review"
      ELSE IF \E c \in cited : c.status = "preserved"
                                                     THEN "eligible_with_disclosure"
      ELSE "eligible"

-----------------------------------------------------------------------------
(***************************************************************************)
(* Permissions.                                                            *)
(***************************************************************************)

DispositiveDecisions ==
  {"accept_claim_a", "accept_claim_b", "mark_source_unreliable"}

\* The roles that may dispose of a critical conflict.
SeniorRoles == {SeniorCounsel, "Accident Reconstruction Expert"}

DecisionPermitted(decision, role, severity) ==
  \/ severity # "critical"
  \/ decision \notin DispositiveDecisions
  \/ role \in SeniorRoles

\* Producing a packet, and approving a section for production.
PacketPermitted(role) == role = SeniorCounsel

HasPrivilegeClearance(role) == role = SeniorCounsel

VisibleTo(role, privilege) ==
  HasPrivilegeClearance(role) \/ privilege \notin WithholdingPrivilege
=============================================================================
