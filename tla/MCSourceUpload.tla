-------------------------- MODULE MCSourceUpload --------------------------
(***************************************************************************)
(* Instances of SourceUpload for TLC.  Reviewer 1 has privilege clearance, *)
(* reviewer 2 has none; document 3 is withheld.                            *)
(***************************************************************************)
EXTENDS SourceUpload, TLC

In(role) == [signedIn |-> TRUE, role |-> role]
Out(role) == [signedIn |-> FALSE, role |-> role]

AccessThere == (1 :> In("cleared")) @@ (2 :> In("member"))

\* Reviewer 1 loses his clearance, reviewer 2 his session.
SomeChanges == {<<1, In("member")>>, <<2, Out("member")>>}

Ask(by, key, print) == [by |-> by, key |-> key, print |-> print]

\* One key for a document, which its client asks for again, and for a withheld one;
\* and an upload without a key.
UploadCalls == {Ask(2, "k", 1), Ask(1, "k", 3), Ask(2, "none", 1)}
=============================================================================
