------------------------- MODULE MCMatterAuthority -------------------------
(***************************************************************************)
(* Instances of MatterAuthority for TLC.  Reviewers 1 and 2 are global     *)
(* Seniors, 3 a Claims Reviewer, and 0 has no account yet: an account's    *)
(* identifier is random, and may come before those there are.              *)
(***************************************************************************)
EXTENDS MatterAuthority, TLC

CONSTANTS r1, r2, r3   \* requests, as model values

Symmetric == Permutations(Requests)

Analyst == "Claims Reviewer"

Row(role, active) == [role |-> role, active |-> active]

Accounts ==
  (1 :> Row(SeniorCounsel, TRUE)) @@ (2 :> Row(SeniorCounsel, TRUE)) @@ (3 :> Row(Analyst, TRUE))

\* Matter 1 has both Seniors and a former analyst, matter 2 only Senior 2.
Members ==
  (<<1, 1>> :> Row(SeniorCounsel, TRUE)) @@ (<<1, 2>> :> Row(SeniorCounsel, TRUE)) @@
  (<<1, 3>> :> Row(Analyst, FALSE)) @@ (<<2, 2>> :> Row(SeniorCounsel, TRUE))

Healthy == [account |-> Accounts, member |-> Members]

\* Matter 3 was left without a Senior.
Damaged == [Healthy EXCEPT !.member =
              @ @@ (<<3, 1>> :> Row(Analyst, TRUE)) @@ (<<3, 2>> :> Row(SeniorCounsel, FALSE))]

-----------------------------------------------------------------------------
Set(by, k, v, role) == [op |-> "set", by |-> by, matter |-> k, target |-> v, role |-> role]
Remove(by, k, v)    == [op |-> "remove", by |-> by, matter |-> k, target |-> v]
Suspend(by, v)      == [op |-> "suspend", by |-> by, target |-> v]
Reinstate(by, v)    == [op |-> "reinstate", by |-> by, target |-> v]
Provision(by, v)    == [op |-> "provision", by |-> by, target |-> v, role |-> SeniorCounsel]
Open(by)            == [op |-> "open", by |-> by]
Restore(k, v)       == [op |-> "restore", matter |-> k, target |-> v]

AllCalls ==
  {Set(1, 1, 1, Analyst),          \* steps down
   Set(2, 1, 3, NoRole),           \* readmits with the role he had
   Set(2, 2, 1, NoRole),           \* first join, with the account's role
   Set(2, 2, 2, Analyst),          \* the only Senior steps down: refused
   Set(1, 3, 1, SeniorCounsel),    \* a stranded matter's member steps up
   Remove(1, 1, 2), Remove(2, 1, 1),
   Suspend(1, 2), Suspend(2, 1), Suspend(2, 3), Reinstate(1, 2),
   Provision(1, 0), Suspend(0, 2), Suspend(2, 0), Open(1), Restore(3, 1), Restore(3, 2)}

\* Roles narrowed and removed at once.
Narrowing == {Set(1, 1, 2, Analyst), Remove(1, 1, 2), Set(1, 1, 2, NoRole)}
=============================================================================
