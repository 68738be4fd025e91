----------------------- MODULE MCEvidenceTransactions -----------------------
(***************************************************************************)
(* Instances of EvidenceTransactions for TLC.                              *)
(***************************************************************************)
EXTENDS EvidenceTransactions, TLC

CONSTANTS counsel, analyst, r1, r2, r3   \* reviewers and requests, as model values

MCRole == (counsel :> SeniorCounsel) @@ (analyst :> "Claims Reviewer")

MCPrivilege == (1 :> "public") @@ (2 :> "attorney_client")

Symmetric == Permutations(Requests)

-----------------------------------------------------------------------------
(***************************************************************************)
(* The opening matter: conflict 1 was preserved, conflict 2 was decided    *)
(* for claim 1, and claim 3 waits for an attestation.  Section 1 discloses *)
(* conflict 1 and can be approved.                                         *)
(***************************************************************************)

Extracted ==
  (1 :> ExtractedClaim(analyst, "public", "verified_exact")) @@
  (2 :> ExtractedClaim(analyst, "public", "verified_exact")) @@
  (3 :> ExtractedClaim(analyst, "public", "manual_verification_required"))

OpeningConflicts ==
  (1 :> Decided(FlaggedConflict(1, 2, "critical"), "preserve_both", "a")) @@
  (2 :> Decided(FlaggedConflict(3, 1, "low"), "accept_claim_b", "b"))

OpenedSection(ref, position, cited) ==
  [paragraphRef |-> ref, position |-> position, claimIds |-> cited, version |-> 1,
   approvalCurrent |-> FALSE, revision |-> DraftRevision(cited)]

MCOpening ==
  [sources  |-> {1},
   claim    |-> RecomputeClaims(Extracted, OpeningConflicts, {1, 2, 3}),
   conflict |-> OpeningConflicts,
   section  |-> (1 :> OpenedSection("PC-1", 0, {1})) @@ (2 :> OpenedSection("PC-2", 1, {3}))]

-----------------------------------------------------------------------------
(***************************************************************************)
(* What is asked for.                                                      *)
(***************************************************************************)

Create == [op |-> "create", by |-> analyst, source |-> 1, quote |-> "verified_exact"]
Upload == [op |-> "upload", by |-> counsel, source |-> 2]

Flag(a, b) == [op |-> "flag", by |-> analyst, a |-> a, b |-> b, severity |-> "low"]
Verify     == [op |-> "verify", by |-> counsel, claim |-> 3]

Reopen    == [op |-> "decide", by |-> analyst, conflict |-> 1,
              decision |-> "mark_unresolved", selected |-> "a"]
Discredit == [op |-> "decide", by |-> counsel, conflict |-> 2,
              decision |-> "mark_source_unreliable", selected |-> "b"]

Draft         == [op |-> "draft", by |-> analyst, ref |-> "PC-3", cited |-> {1}]
Revise(s, p)  == [op |-> "revise", by |-> analyst, section |-> s, ref |-> p, cited |-> {1, 2}]
Approve       == [op |-> "approve", by |-> counsel, section |-> 1]
Packet(t, k)  == [op |-> "packet", by |-> counsel, type |-> t, key |-> k]

AllCalls ==
  {Create, Upload, Flag(1, 2), Flag(2, 1), Verify, Reopen, Discredit, Draft,
   Revise(1, "PC-1"), Revise(2, "PC-3"), Approve,
   Packet("production", "key"), Packet("internal", "key"), Packet("production", NoKey)}

\* One call for each order in which locks are taken.
LockingCalls == {Flag(2, 1), Reopen, Draft, Revise(1, "PC-1"), Packet("production", "key")}
=============================================================================
