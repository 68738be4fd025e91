--------------------------- MODULE MCEvidenceCase ---------------------------
(***************************************************************************)
(* Instances of EvidenceCase for TLC.                                      *)
(***************************************************************************)
EXTENDS EvidenceCase, TLC

CONSTANTS counsel, analyst   \* reviewers, as model values

MCRole == (counsel :> SeniorCounsel) @@ (analyst :> "Claims Reviewer")

\* Source 1 is public, source 2 is withheld.
MCPrivilege == (1 :> "public") @@ (2 :> "attorney_client")

NoRows == [x \in {} |-> x]

\* A matter in which one source was uploaded and nothing else was done yet.
FreshMatter ==
  [sources |-> {1}, claim |-> NoRows, conflict |-> NoRows, section |-> NoRows]

\* The claims of a matter after extraction: claim 2 waits for an attestation
\* and claim 3 is withheld.
ExtractedClaims ==
  (1 :> ExtractedClaim(analyst, "public", "verified_exact")) @@
  (2 :> ExtractedClaim(analyst, "public", "manual_verification_required")) @@
  (3 :> ExtractedClaim(counsel, "attorney_client", "legacy_unverified"))

\* The conflict between claims 1 and 2 was preserved; the one between 2 and 3
\* is open.  A section cites claim 1.
DisputedConflicts ==
  (1 :> Decided(FlaggedConflict(1, 2, "critical"), "preserve_both", "a")) @@
  (2 :> FlaggedConflict(3, 2, "low"))

DisputedMatter ==
  [sources  |-> {1, 2},
   claim    |-> RecomputeClaims(ExtractedClaims, DisputedConflicts, {1, 2, 3}),
   conflict |-> DisputedConflicts,
   section  |-> 1 :> [paragraphRef |-> "PC-1", position |-> 0, claimIds |-> {1},
                      version |-> 1, approvalCurrent |-> FALSE,
                      revision |-> DraftRevision({1})]]
=============================================================================
